---- MODULE Spec2Model ----
(***************************************************************************)
(* Model of the world-streaming core of LangGame (src/main.py): chunk      *)
(* generation (Chunk), the chunk registry and active set (World), and the  *)
(* lookups that the player and the interaction code run against them.      *)
(***************************************************************************)
EXTENDS Integers, Naturals, Sequences, FiniteSets, TLC

(***************************************************************************)
(* Program constants                                                       *)
(***************************************************************************)
CHUNK_SIZE == 16
TILE_SIZE == 32
RENDER_DISTANCE == 2

\* GAME_OBJECTS: the catalogue of tile types, identified by their "name".
GAME_OBJECTS ==
    {"tree", "water", "stone", "house", "grass", "path", "flower",
     "mushroom", "log", "bush", "rabbit", "bird"}

\* The "passable" attribute of each catalogue entry.
Passable(name) == name \in {"grass", "path", "flower", "mushroom", "rabbit", "bird"}

\* Python's None.
None == "None"

(***************************************************************************)
(* Bounds of the model                                                     *)
(***************************************************************************)
\* Number of values random.seed() may draw from the operating system.
MaxEntropy == 2
\* The tile coordinates of the tile-mapping runs lie in -MaxTile..MaxTile.
MaxTile == 17
\* Number of Chunk constructions that may run at the same time.
MaxGenerators == 2
\* learn_word is called for a word while it has fewer than MaxViews views.
MaxViews == 6
\* Player.move is called while the player has made fewer than MaxMoves steps.
MaxMoves == 1

(***************************************************************************)
(* The module-level generator of Python's random module.  Its state is one *)
(* number; every draw advances it.  seed(string) sets the state from the   *)
(* string alone, seed() sets it from operating-system entropy.             *)
(***************************************************************************)
RngMod == 65537

RngNext(s) == (s * 75 + 74) % RngMod

\* random.seed(f"{chunk_x}-{chunk_y}"): a function of the two coordinates.
\* The string is injective in (chunk_x, chunk_y); so is this hash on the
\* coordinates the model uses.
SeedOf(cx, cy) == ((cx + 1000) * 2003 + (cy + 1000) * 7 + 1) % RngMod

\* random.random() < pct/100, read off the state reached by the draw.
RandomPct(s) == (s * 100) \div RngMod

\* random.randint(a, b), read off the state reached by the draw.
RandInt(s, a, b) == a + (s * (b - a + 1)) \div RngMod

Abs(n) == IF n < 0 THEN -n ELSE n
Max(a, b) == IF a > b THEN a ELSE b
Min(a, b) == IF a < b THEN a ELSE b

(***************************************************************************)
(* Chunk generation.  A generation state is [rng, tiles]: the state of the *)
(* shared generator and the grid, tiles[y][x], under construction.         *)
(***************************************************************************)
Local == 0 .. (CHUNK_SIZE - 1)

\* self.tiles = [[grass ...] ...]
AllGrass == [y \in Local |-> [x \in Local |-> "grass"]]

SetTile(tiles, x, y, name) == [tiles EXCEPT ![y][x] = name]

\* Is there a tile named `name` in the 3x3 neighbourhood of (x, y)?
\* (the nested has_path_nearby / tree_nearby loops)
Nearby(tiles, x, y, name) ==
    \E ny \in Max(0, y - 1) .. (Min(CHUNK_SIZE, y + 2) - 1) :
        \E nx \in Max(0, x - 1) .. (Min(CHUNK_SIZE, x + 2) - 1) :
            tiles[ny][nx] = name

generate_path(st) ==
    LET s1 == RngNext(st.rng)
        path_type == RandInt(s1, 0, 2)   \* 0 horizontal, 1 vertical, 2 both
        horiz == path_type \in {0, 2}
        vert == path_type \in {1, 2}
        s2 == IF horiz THEN RngNext(s1) ELSE s1
        py == RandInt(s2, CHUNK_SIZE \div 4, (3 * CHUNK_SIZE) \div 4)
        t1 == IF horiz
              THEN [st.tiles EXCEPT ![py] = [x \in Local |-> "path"]]
              ELSE st.tiles
        s3 == IF vert THEN RngNext(s2) ELSE s2
        px == RandInt(s3, CHUNK_SIZE \div 4, (3 * CHUNK_SIZE) \div 4)
        t2 == IF vert
              THEN [y \in Local |-> [t1[y] EXCEPT ![px] = "path"]]
              ELSE t1
    IN  [rng |-> s3, tiles |-> t2]

\* One row of a blob: the cells x..xhi-1 of row y.  onlyGrass: skip (without
\* drawing) a cell that is not grass.
RECURSIVE BlobRow(_, _, _, _, _, _, _, _, _, _)
BlobRow(st, x, y, xhi, cx, cy, radius, pct, name, onlyGrass) ==
    IF x >= xhi THEN st
    ELSE IF st.tiles[y][x] # "grass" /\ onlyGrass
         THEN BlobRow(st, x + 1, y, xhi, cx, cy, radius, pct, name, onlyGrass)
    ELSE LET s1 == RngNext(st.rng)
             hit == RandomPct(s1) < pct
                    /\ (x - cx) * (x - cx) + (y - cy) * (y - cy) <= radius * radius
             t1 == IF hit THEN SetTile(st.tiles, x, y, name) ELSE st.tiles
         IN  BlobRow([rng |-> s1, tiles |-> t1], x + 1, y, xhi,
                     cx, cy, radius, pct, name, onlyGrass)

\* The cells of one blob, visited row by row: y in y..yhi-1, x in xlo..xhi-1.
RECURSIVE Blob(_, _, _, _, _, _, _, _, _, _, _)
Blob(st, y, xlo, xhi, yhi, cx, cy, radius, pct, name, onlyGrass) ==
    IF y >= yhi THEN st
    ELSE Blob(BlobRow(st, xlo, y, xhi, cx, cy, radius, pct, name, onlyGrass),
              y + 1, xlo, xhi, yhi, cx, cy, radius, pct, name, onlyGrass)

RECURSIVE TreeClusters(_, _)
TreeClusters(st, n) ==
    IF n = 0 THEN st
    ELSE LET s1 == RngNext(st.rng)
             center_x == RandInt(s1, 2, CHUNK_SIZE - 3)
             s2 == RngNext(s1)
             center_y == RandInt(s2, 2, CHUNK_SIZE - 3)
             s3 == RngNext(s2)
             radius == RandInt(s3, 2, 4)
             xlo == Max(0, center_x - radius)
             xhi == Min(CHUNK_SIZE, center_x + radius)
             ylo == Max(0, center_y - radius)
             yhi == Min(CHUNK_SIZE, center_y + radius)
         IN  TreeClusters(Blob([rng |-> s3, tiles |-> st.tiles], ylo, xlo, xhi, yhi,
                               center_x, center_y, radius, 60, "tree", TRUE),
                          n - 1)

generate_trees(st) ==
    LET s1 == RngNext(st.rng)
    IN  TreeClusters([rng |-> s1, tiles |-> st.tiles], RandInt(s1, 1, 3))

generate_water(st) ==
    LET s1 == RngNext(st.rng)
        center_x == RandInt(s1, 3, CHUNK_SIZE - 4)
        s2 == RngNext(s1)
        center_y == RandInt(s2, 3, CHUNK_SIZE - 4)
        s3 == RngNext(s2)
        radius == RandInt(s3, 2, 5)
        xlo == Max(0, center_x - radius)
        xhi == Min(CHUNK_SIZE, center_x + radius)
        ylo == Max(0, center_y - radius)
        yhi == Min(CHUNK_SIZE, center_y + radius)
    IN  Blob([rng |-> s3, tiles |-> st.tiles], ylo, xlo, xhi, yhi,
             center_x, center_y, radius, 70, "water", FALSE)

\* The flowers around a house at (hx, hy): the 3x3 neighbourhood row by row.
RECURSIVE Flowers(_, _, _, _, _)
Flowers(st, nx, ny, hx, hy) ==
    LET xlo == Max(0, hx - 1)
        xhi == Min(CHUNK_SIZE, hx + 2)
        yhi == Min(CHUNK_SIZE, hy + 2)
    IN  IF ny >= yhi THEN st
        ELSE IF nx >= xhi THEN Flowers(st, xlo, ny + 1, hx, hy)
        ELSE IF (nx # hx \/ ny # hy) /\ st.tiles[ny][nx] = "grass"
             THEN LET s1 == RngNext(st.rng)
                      t1 == IF RandomPct(s1) < 40
                            THEN SetTile(st.tiles, nx, ny, "flower")
                            ELSE st.tiles
                  IN  Flowers([rng |-> s1, tiles |-> t1], nx + 1, ny, hx, hy)
        ELSE Flowers(st, nx + 1, ny, hx, hy)

\* HouseAnywhere from attempt number 5 on.
HouseAnywhere_AfterFive(attempt) == attempt >= 5

\* May attempt number `attempt` (0-based) place a house without a path nearby?
HouseAnywhere(attempt) == attempt > 5

\* CanHoldHouse that lets a house stand on any cell.
CanHoldHouse_Any(name) == TRUE

\* `self.tiles[y][x]["name"] not in ["water", "path", "house"]`
CanHoldHouse(name) == name \notin {"water", "path", "house"}

\* One house: attempts attempt..9.
RECURSIVE HouseAttempts(_, _)
HouseAttempts(st, attempt) ==
    IF attempt >= 10 THEN st
    ELSE LET s1 == RngNext(st.rng)
             x == RandInt(s1, 1, CHUNK_SIZE - 2)
             s2 == RngNext(s1)
             y == RandInt(s2, 1, CHUNK_SIZE - 2)
             has_path_nearby == Nearby(st.tiles, x, y, "path")
         IN  IF (has_path_nearby \/ HouseAnywhere(attempt))
                /\ CanHoldHouse(st.tiles[y][x])
             THEN Flowers([rng |-> s2, tiles |-> SetTile(st.tiles, x, y, "house")],
                          Max(0, x - 1), Max(0, y - 1), x, y)
             ELSE HouseAttempts([rng |-> s2, tiles |-> st.tiles], attempt + 1)

RECURSIVE Houses(_, _)
Houses(st, n) ==
    IF n = 0 THEN st ELSE Houses(HouseAttempts(st, 0), n - 1)

generate_houses(st) ==
    LET s1 == RngNext(st.rng)
    IN  Houses([rng |-> s1, tiles |-> st.tiles], RandInt(s1, 0, 3))

\* One log: attempts attempt..4.
RECURSIVE LogAttempts(_, _)
LogAttempts(st, attempt) ==
    IF attempt >= 5 THEN st
    ELSE LET s1 == RngNext(st.rng)
             x == RandInt(s1, 0, CHUNK_SIZE - 1)
             s2 == RngNext(s1)
             y == RandInt(s2, 0, CHUNK_SIZE - 1)
             tree_nearby == Nearby(st.tiles, x, y, "tree")
         IN  IF (tree_nearby \/ attempt > 3) /\ st.tiles[y][x] = "grass"
             THEN [rng |-> s2, tiles |-> SetTile(st.tiles, x, y, "log")]
             ELSE LogAttempts([rng |-> s2, tiles |-> st.tiles], attempt + 1)

\* One bush or rabbit: up to five tries at a grass cell, attempts attempt..4.
RECURSIVE OnGrassAttempts(_, _, _)
OnGrassAttempts(st, attempt, name) ==
    IF attempt >= 5 THEN st
    ELSE LET s1 == RngNext(st.rng)
             x == RandInt(s1, 0, CHUNK_SIZE - 1)
             s2 == RngNext(s1)
             y == RandInt(s2, 0, CHUNK_SIZE - 1)
         IN  IF st.tiles[y][x] = "grass"
             THEN [rng |-> s2, tiles |-> SetTile(st.tiles, x, y, name)]
             ELSE OnGrassAttempts([rng |-> s2, tiles |-> st.tiles], attempt + 1, name)

RECURSIVE Logs(_, _)
Logs(st, n) == IF n = 0 THEN st ELSE Logs(LogAttempts(st, 0), n - 1)

RECURSIVE OnGrass(_, _, _)
OnGrass(st, n, name) ==
    IF n = 0 THEN st ELSE OnGrass(OnGrassAttempts(st, 0, name), n - 1, name)

generate_forest_elements(st) ==
    LET s1 == RngNext(st.rng)
        afterLogs == Logs([rng |-> s1, tiles |-> st.tiles], RandInt(s1, 0, 3))
        s2 == RngNext(afterLogs.rng)
    IN  OnGrass([rng |-> s2, tiles |-> afterLogs.tiles], RandInt(s2, 1, 5), "bush")

\* One bird: attempts attempt..4; in a tree or on the ground.
RECURSIVE BirdAttempts(_, _, _)
BirdAttempts(st, attempt, bird_in_tree) ==
    IF attempt >= 5 THEN st
    ELSE LET s1 == RngNext(st.rng)
             x == RandInt(s1, 0, CHUNK_SIZE - 1)
             s2 == RngNext(s1)
             y == RandInt(s2, 0, CHUNK_SIZE - 1)
         IN  IF (bird_in_tree /\ st.tiles[y][x] = "tree")
                \/ (~bird_in_tree /\ st.tiles[y][x] = "grass")
             THEN [rng |-> s2, tiles |-> SetTile(st.tiles, x, y, "bird")]
             ELSE BirdAttempts([rng |-> s2, tiles |-> st.tiles], attempt + 1, bird_in_tree)

RECURSIVE Birds(_, _)
Birds(st, n) ==
    IF n = 0 THEN st
    ELSE LET s1 == RngNext(st.rng)
         IN  Birds(BirdAttempts([rng |-> s1, tiles |-> st.tiles], 0, RandomPct(s1) < 50),
                   n - 1)

generate_animals(st) ==
    LET s1 == RngNext(st.rng)
        afterRabbits == OnGrass([rng |-> s1, tiles |-> st.tiles], RandInt(s1, 0, 2), "rabbit")
        s2 == RngNext(afterRabbits.rng)
    IN  Birds([rng |-> s2, tiles |-> afterRabbits.tiles], RandInt(s2, 0, 2))

\* `if random.random() < pct/100: step(st)`: the draw, then the step or not.
DrawThen(st, pct) == [rng |-> RngNext(st.rng), tiles |-> st.tiles]
Drawn(st, pct) == RandomPct(RngNext(st.rng)) < pct

PathStep(st, cx, cy) ==
    IF Abs(cx) <= 2 \/ Abs(cy) <= 2 THEN generate_path(st) ELSE st

TreesStep(st) ==
    IF Drawn(st, 70) THEN generate_trees(DrawThen(st, 70)) ELSE DrawThen(st, 70)

WaterStep(st) ==
    IF Drawn(st, 40) THEN generate_water(DrawThen(st, 40)) ELSE DrawThen(st, 40)

HousesStep(st, cx, cy) ==
    IF Abs(cx) <= 3 /\ Abs(cy) <= 3 THEN generate_houses(st)
    ELSE IF Drawn(st, 20) THEN generate_houses(DrawThen(st, 20)) ELSE DrawThen(st, 20)

ForestStep(st) ==
    IF Drawn(st, 60) THEN generate_forest_elements(DrawThen(st, 60)) ELSE DrawThen(st, 60)

AnimalsStep(st) ==
    IF Drawn(st, 40) THEN generate_animals(DrawThen(st, 40)) ELSE DrawThen(st, 40)

generate_features(st, cx, cy) ==
    AnimalsStep(ForestStep(HousesStep(WaterStep(TreesStep(PathStep(st, cx, cy))), cx, cy)))

(***************************************************************************)
(* Chunk: construction and the per-chunk helpers                           *)
(***************************************************************************)
\* SeedChunk without the call of random.seed(position).
SeedChunk_NoSeed(r, cx, cy) == r

\* The state random.seed(f"{chunk_x}-{chunk_y}") leaves the shared generator
\* in; r is the state it had before the call.
SeedChunk(r, cx, cy) == SeedOf(cx, cy)

\* self.generate_features() from generator state `start` on an all-grass grid.
FeaturesFrom(start, cx, cy) ==
    generate_features([rng |-> start, tiles |-> AllGrass], cx, cy).tiles

\* The chunk coordinates a run can reach: those of the windows around the keys
\* handed to update_active_chunks and of the tiles of the tile-mapping runs.
ReachableCoords == (-3) .. 3

\* FeaturesFrom for the position seeds of the reachable chunks, evaluated once:
\* SeededFeatures[cx][cy] = FeaturesFrom(SeedOf(cx, cy), cx, cy).
RECURSIVE FeatureColumn(_, _)
FeatureColumn(cx, S) ==
    IF S = {} THEN [k \in {} |-> 0]
    ELSE LET cy == CHOOSE y \in S : TRUE
         IN  (cy :> FeaturesFrom(SeedOf(cx, cy), cx, cy)) @@ FeatureColumn(cx, S \ {cy})

RECURSIVE FeatureTable(_)
FeatureTable(S) ==
    IF S = {} THEN [k \in {} |-> 0]
    ELSE LET cx == CHOOSE x \in S : TRUE
         IN  (cx :> FeatureColumn(cx, ReachableCoords)) @@ FeatureTable(S \ {cx})

SeededFeatures == FeatureTable(ReachableCoords)

\* Chunk.generate_tiles: all grass, seed by position, features, reseed from
\* the operating system (entropy value e).  Returns the grid and the state
\* the shared generator is left in.
generate_tiles(r, cx, cy, e) ==
    LET start == SeedChunk(r, cx, cy)
    IN  [tiles |-> IF start = SeedOf(cx, cy) /\ cx \in ReachableCoords /\ cy \in ReachableCoords
                   THEN SeededFeatures[cx][cy]
                   ELSE FeaturesFrom(start, cx, cy),
         rng |-> e]

\* The fields of a Chunk whose generate_tiles call returned g, and the state
\* the call left the shared generator in.
ChunkFields(cx, cy, g) ==
    [chunk |-> [chunk_x |-> cx, chunk_y |-> cy, tiles |-> g.tiles, objects |-> << >>],
     rng |-> g.rng]

\* Chunk.__init__
Chunk(r, cx, cy, e) == ChunkFields(cx, cy, generate_tiles(r, cx, cy, e))

\* Division that rounds toward zero.
FloorDiv_Truncating(a, b) == IF a >= 0 THEN a \div b ELSE -((-a) \div b)

\* Python's floor division and modulo by a positive number.
FloorDiv(a, b) == a \div b
FloorMod(a, b) == a % b

\* Chunk.get_tile
chunk_get_tile(chunk, local_x, local_y) ==
    IF 0 <= local_x /\ local_x < CHUNK_SIZE /\ 0 <= local_y /\ local_y < CHUNK_SIZE
    THEN chunk.tiles[local_y][local_x]
    ELSE None

\* Chunk.get_world_position
get_world_position(chunk, local_x, local_y) ==
    <<(chunk.chunk_x * CHUNK_SIZE) + local_x, (chunk.chunk_y * CHUNK_SIZE) + local_y>>

\* GameObject.__init__.  The variation is one draw from the shared generator;
\* the draw is modelled by create_game_objects (it advances the generator),
\* its value only feeds the drawing code and is not kept.
GameObject(x, y, obj_type) ==
    [x |-> x, y |-> y, obj_type |-> obj_type, revealed |-> FALSE,
     translation_shown |-> FALSE, mastered |-> FALSE]

\* GameObject.get_tile_position
get_tile_position(obj) == <<FloorDiv(obj.x, TILE_SIZE), FloorDiv(obj.y, TILE_SIZE)>>

\* The generator state after n draws.  (A state is never negative; the test
\* on s makes the evaluator compute each state before the next call.)
RECURSIVE RngSkip(_, _)
RngSkip(s, n) == IF n = 0 \/ s < 0 THEN s ELSE RngSkip(RngNext(s), n - 1)

\* The generator state after the draws of `rows` rows of CHUNK_SIZE objects.
RECURSIVE RngSkipRows(_, _)
RngSkipRows(s, rows) ==
    IF rows = 0 \/ s < 0 THEN s ELSE RngSkipRows(RngSkip(s, CHUNK_SIZE), rows - 1)

\* The generator state after create_game_objects ran for n chunks: one draw
\* (GameObject.variation) for each object of each of the CHUNK_SIZE rows.
RECURSIVE RngSkipChunks(_, _)
RngSkipChunks(s, n) ==
    IF n = 0 \/ s < 0 THEN s ELSE RngSkipChunks(RngSkipRows(s, CHUNK_SIZE), n - 1)

\* Chunk.create_game_objects: the new object list, row by row (y outer, x
\* inner).
create_game_objects(chunk) ==
    [i \in 1 .. (CHUNK_SIZE * CHUNK_SIZE) |->
        LET x == (i - 1) % CHUNK_SIZE
            y == (i - 1) \div CHUNK_SIZE
            wp == get_world_position(chunk, x, y)
        IN  GameObject(wp[1] * TILE_SIZE, wp[2] * TILE_SIZE, chunk.tiles[y][x])]

(***************************************************************************)
(* World.  A world value is [chunks, rng, loads]: the chunk dictionary,    *)
(* the shared generator, and how often get_chunk has built each key.       *)
(***************************************************************************)
\* IsLoaded without the dictionary test: get_chunk always builds.
IsLoaded_Never(chs, key) == FALSE

IsLoaded(chs, key) == key \in DOMAIN chs

\* `self.chunks[chunk_key] = Chunk(chunk_x, chunk_y)`: c is the new chunk with
\* the state its construction left the shared generator in.
StoreChunk(w, key, c) ==
    [chunks |-> (key :> c.chunk) @@ w.chunks,
     rng |-> c.rng,
     loads |-> (key :> (IF key \in DOMAIN w.loads THEN w.loads[key] + 1 ELSE 1)) @@ w.loads]

\* World.get_chunk
get_chunk(w, cx, cy, e) ==
    IF IsLoaded(w.chunks, <<cx, cy>>) THEN w
    ELSE StoreChunk(w, <<cx, cy>>, Chunk(w.rng, cx, cy, e))

\* `return chunk.get_tile(local_x, local_y)` in the world w1 that get_chunk
\* left.
TileOfChunk(w1, chunk_x, chunk_y, local_x, local_y) ==
    [w |-> w1,
     chunk |-> <<chunk_x, chunk_y>>,
     local |-> <<local_x, local_y>>,
     ret |-> chunk_get_tile(w1.chunks[<<chunk_x, chunk_y>>], local_x, local_y)]

\* World.get_tile: the world after the call and the tile returned.
get_tile(w, tile_x, tile_y, e) ==
    TileOfChunk(get_chunk(w, FloorDiv(tile_x, CHUNK_SIZE), FloorDiv(tile_y, CHUNK_SIZE), e),
                FloorDiv(tile_x, CHUNK_SIZE), FloorDiv(tile_y, CHUNK_SIZE),
                FloorMod(tile_x, CHUNK_SIZE), FloorMod(tile_y, CHUNK_SIZE))

\* `if tile: return tile.get("passable", True)`, `return False`, for the
\* result t of get_tile.
PassableOfTile_Always(t) == [w |-> t.w, ret |-> TRUE]

\* is_tile_passable for the result t of get_tile.
PassableOfTile(t) ==
    [w |-> t.w, ret |-> IF t.ret # None THEN Passable(t.ret) ELSE FALSE]

\* World.is_tile_passable
is_tile_passable(w, tile_x, tile_y, e) == PassableOfTile(get_tile(w, tile_x, tile_y, e))

\* TooFar with the cut at twice the render distance.
TooFar_Twice(manhattan_dist) == manhattan_dist > 2 * RENDER_DISTANCE

\* `manhattan_dist > self.render_distance * 1.5`, in integers
TooFar(manhattan_dist) == 2 * manhattan_dist > 3 * RENDER_DISTANCE

\* The chunk keys the loops of update_active_chunks keep, in loop order
\* (y outer, x inner), from position i of the (2R+1) x (2R+1) window on.
RECURSIVE WindowFrom(_, _, _)
WindowFrom(pcx, pcy, i) ==
    LET side == 2 * RENDER_DISTANCE + 1
        x == pcx - RENDER_DISTANCE + (i % side)
        y == pcy - RENDER_DISTANCE + (i \div side)
    IN  IF i >= side * side THEN << >>
        ELSE IF TooFar(Abs(x - pcx) + Abs(y - pcy)) THEN WindowFrom(pcx, pcy, i + 1)
        ELSE <<(<<x, y>>)>> \o WindowFrom(pcx, pcy, i + 1)

\* NeedsLoad that takes every key of the window for loaded.
NeedsLoad_Never(active, key) == FALSE

\* `if chunk_key not in self.active_chunks`: must this key be loaded?
NeedsLoad(active, key) == key \notin active

\* The get_chunk calls of the loop, for keys[i..].
RECURSIVE LoadKeys(_, _, _, _, _)
LoadKeys(w, active, keys, i, e) ==
    IF i > Len(keys) \/ w.rng < 0 THEN w
    ELSE IF NeedsLoad(active, keys[i])
         THEN LoadKeys(get_chunk(w, keys[i][1], keys[i][2], e), active, keys, i + 1, e)
    ELSE LoadKeys(w, active, keys, i + 1, e)

\* The value of last_player_chunk while World has no such attribute.
NoChunk == << >>

\* SameChunkAsLast without the hasattr test: a first call returns early too.
SameChunkAsLast_NoHasattr(last, key) == last = NoChunk \/ key = last

\* The early return of update_active_chunks: last is self.last_player_chunk,
\* NoChunk while the attribute does not exist.
SameChunkAsLast(last, key) == last # NoChunk /\ key = last

\* World.update_active_chunks: the world after the call, the new active set
\* and the new last_player_chunk.
update_active_chunks(w, active, last, pcx, pcy, e) ==
    IF SameChunkAsLast(last, <<pcx, pcy>>)
    THEN [w |-> w, active |-> active, last |-> last, early |-> TRUE]
    ELSE LET keys == WindowFrom(pcx, pcy, 0)
         IN  [w |-> LoadKeys(w, active, keys, 1, e),
              active |-> {keys[i] : i \in 1 .. Len(keys)},
              last |-> <<pcx, pcy>>,
              early |-> FALSE]

\* HasNoObjects that takes every list for empty: the list is built anew at
\* every call.
HasNoObjects_Always(chunk) == TRUE

\* `if not chunk.objects` of get_objects_in_active_chunks
HasNoObjects(chunk) == chunk.objects = << >>

\* World.get_objects_in_active_chunks: the chunks and generator after the
\* call, and the keys whose object lists, concatenated, are the list
\* returned (a Python set is visited in no specified order, so the keys are
\* given as a set).  Every active chunk without objects gets its object list;
\* self.chunks[chunk_coord] raises KeyError for a key that is not loaded
\* (raised).
get_objects_in_active_chunks(chs, active, r) ==
    IF \E k \in active : k \notin DOMAIN chs
    THEN [chunks |-> chs, rng |-> r, raised |-> TRUE, ret |-> {}]
    ELSE LET unbuilt == {k \in active : HasNoObjects(chs[k])}
         IN  [chunks |-> [k \in DOMAIN chs |->
                            IF k \in unbuilt
                            THEN [chs[k] EXCEPT !.objects = create_game_objects(chs[k])]
                            ELSE chs[k]],
              rng |-> RngSkipChunks(r, Cardinality(unbuilt)),
              raised |-> FALSE,
              ret |-> active]

\* HasChunk without the dictionary test.
HasChunk_Always(chs, key) == TRUE

\* `if chunk_key in self.chunks` of get_object_at_tile
HasChunk(chs, key) == key \in DOMAIN chs

\* No object: the None that get_object_at_tile returns.
NoObject == << >>

\* World.get_object_at_tile: a reference <<key, index>> to the first object
\* of the chunk whose tile position matches, or NoObject; raised when
\* self.chunks[chunk_key] raises KeyError.
get_object_at_tile(chs, tile_x, tile_y) ==
    LET key == <<FloorDiv(tile_x, CHUNK_SIZE), FloorDiv(tile_y, CHUNK_SIZE)>>
    IN  IF HasChunk(chs, key)
        THEN IF key \notin DOMAIN chs THEN [raised |-> TRUE, ret |-> NoObject]
             ELSE LET objs == chs[key].objects
                      hits == {i \in 1 .. Len(objs) : get_tile_position(objs[i]) = <<tile_x, tile_y>>}
                  IN  [raised |-> FALSE,
                       ret |-> IF hits = {} THEN NoObject
                               ELSE <<key, CHOOSE i \in hits : \A j \in hits : i <= j>>]
        ELSE [raised |-> FALSE, ret |-> NoObject]

(***************************************************************************)
(* Player: position, facing, score and the ledger of learned words         *)
(***************************************************************************)
WINDOW_MODE_FULLSCREEN == 1

LANGUAGES == {"spanish", "french"}

DIRECTION_UP == 0
DIRECTION_RIGHT == 1
DIRECTION_DOWN == 2
DIRECTION_LEFT == 3

SCREEN_WIDTH == 800
SCREEN_HEIGHT == 600

\* obj_type[language]: the word of a catalogue entry in a language (written
\* without accents).
Translation(name, language) ==
    CASE language = "english" -> name
      [] language = "spanish" ->
            (CASE name = "tree" -> "arbol" [] name = "water" -> "agua"
               [] name = "stone" -> "piedra" [] name = "house" -> "casa"
               [] name = "grass" -> "hierba" [] name = "path" -> "camino"
               [] name = "flower" -> "flor" [] name = "mushroom" -> "hongo"
               [] name = "log" -> "tronco" [] name = "bush" -> "arbusto"
               [] name = "rabbit" -> "conejo" [] name = "bird" -> "pajaro")
      [] language = "french" ->
            (CASE name = "tree" -> "arbre" [] name = "water" -> "eau"
               [] name = "stone" -> "pierre" [] name = "house" -> "maison"
               [] name = "grass" -> "herbe" [] name = "path" -> "chemin"
               [] name = "flower" -> "fleur" [] name = "mushroom" -> "champignon"
               [] name = "log" -> "buche" [] name = "bush" -> "buisson"
               [] name = "rabbit" -> "lapin" [] name = "bird" -> "oiseau")

\* Player.__init__.  words_learned is the defaultdict(dict): language -> name
\* -> [word, english, views, mastered].  interaction_range does not exist
\* until update_interaction_target sets it (has_interaction_range).
Player(x, y) ==
    [x |-> x, y |-> y,
     width |-> TILE_SIZE, height |-> TILE_SIZE,
     score |-> 0,
     words_learned |-> [l \in {} |-> 0],
     direction |-> DIRECTION_DOWN,
     tile_x |-> FloorDiv(x, TILE_SIZE),
     tile_y |-> FloorDiv(y, TILE_SIZE),
     chunk_x |-> FloorDiv(FloorDiv(x, TILE_SIZE), CHUNK_SIZE),
     chunk_y |-> FloorDiv(FloorDiv(y, TILE_SIZE), CHUNK_SIZE),
     animation_frame |-> 0,
     animation_counter |-> 0,
     interaction_target |-> NoObject,
     has_interaction_range |-> FALSE,
     interaction_range |-> 0,
     camera_offset_x |-> 0,
     camera_offset_y |-> 0]

\* self.words_learned[language] of the defaultdict: reading a missing language
\* yields (and stores) an empty dictionary.
WordsOf(wl, language) == IF language \in DOMAIN wl THEN wl[language] ELSE [n \in {} |-> 0]

\* The defaultdict after self.words_learned[language] was read.
Touched(wl, language) == (language :> WordsOf(wl, language)) @@ wl

\* The defaultdict after self.words_learned[language][name] = entry.
WithEntry_Fresh(wl, language, name, entry) == (language :> (name :> entry)) @@ wl

\* The ledger after `self.words_learned[language][name] = entry`.
WithEntry(wl, language, name, entry) ==
    (language :> ((name :> entry) @@ WordsOf(wl, language))) @@ wl

\* Promotes that never promotes an entry seen before.
Promotes_Never(views, mastered) == FALSE

\* `views >= 5 and not mastered`, for the incremented view count
Promotes(views, mastered) == views >= 5 /\ ~mastered

\* LearningBonus that is also paid for a mastered entry.
LearningBonus_Always(mastered) == 2

\* `elif not mastered: self.score += 2`
LearningBonus(mastered) == IF ~mastered THEN 2 ELSE 0

\* The else branch of learn_word: the entry `old` is viewed once more.
\* Returns the entry and the score added.
ViewAgain(old) ==
    IF Promotes(old.views + 1, old.mastered)
    THEN [entry |-> [old EXCEPT !.views = old.views + 1, !.mastered = TRUE], bonus |-> 50]
    ELSE [entry |-> [old EXCEPT !.views = old.views + 1],
          bonus |-> LearningBonus(old.mastered)]

\* Learned that stores the entry and adds nothing to the score.
Learned_NoScore(p, name, language, v) ==
    [player |-> [p EXCEPT !.words_learned = WithEntry(p.words_learned, language, name, v.entry)],
     ret |-> v.entry]

\* The player after learn_word stored entry v.entry and added v.bonus, and the
\* entry returned.
Learned(p, name, language, v) ==
    [player |-> [p EXCEPT !.words_learned = WithEntry(p.words_learned, language, name, v.entry),
                          !.score = p.score + v.bonus],
     ret |-> v.entry]

\* Player.learn_word(obj_type, language), obj_type["name"] = name
learn_word(p, name, language) ==
    IF name \notin DOMAIN WordsOf(p.words_learned, language)
    THEN Learned(p, name, language,
                 [entry |-> [word |-> Translation(name, language),
                             english |-> Translation(name, "english"),
                             views |-> 1,
                             mastered |-> FALSE],
                  bonus |-> 10])
    ELSE Learned(p, name, language, ViewAgain(p.words_learned[language][name]))

\* The words counted by get_mastery_percentage(language), over every language.
CountedWords_AllLanguages(wl, language) ==
    {<<l, n>> \in LANGUAGES \X GAME_OBJECTS : l \in DOMAIN wl /\ n \in DOMAIN wl[l]}

\* self.words_learned[language].values(), as the (language, name) pairs of the
\* entries.
CountedWords(wl, language) ==
    {<<l, n>> \in {language} \X GAME_OBJECTS : l \in DOMAIN wl /\ n \in DOMAIN wl[l]}

\* Player.get_mastery_percentage: (mastered_words / total_words) * 100 as the
\* fraction num / den; 0 is 0 / 1.
get_mastery_percentage(wl, language) ==
    IF language \notin DOMAIN wl \/ DOMAIN wl[language] = {}
    THEN [num |-> 0, den |-> 1]
    ELSE [num |-> Cardinality({k \in CountedWords(wl, language) : wl[k[1]][k[2]].mastered}) * 100,
          den |-> Cardinality(CountedWords(wl, language))]

\* The animation counters after one more call of move.
Animated(p, dx, dy) ==
    IF dx # 0 \/ dy # 0
    THEN IF p.animation_counter + 1 >= 8
         THEN [p EXCEPT !.animation_counter = 0,
                        !.animation_frame = (p.animation_frame + 1) % 4]
         ELSE [p EXCEPT !.animation_counter = p.animation_counter + 1]
    ELSE [p EXCEPT !.animation_counter = 0, !.animation_frame = 0]

\* `if dx > 0 ... elif dx < 0 ... elif dy > 0 ... elif dy < 0` of move
MoveDirection(direction, dx, dy) ==
    IF dx > 0 THEN DIRECTION_RIGHT
    ELSE IF dx < 0 THEN DIRECTION_LEFT
    ELSE IF dy > 0 THEN DIRECTION_DOWN
    ELSE IF dy < 0 THEN DIRECTION_UP
    ELSE direction

\* Player.get_facing_tile_position: the player, whose direction it sets from
\* the mouse position, and the tile under the mouse.  mouse is
\* pygame.mouse.get_pos().
get_facing_tile_position(p, mouse) ==
    LET world_mouse_x == mouse[1] + p.camera_offset_x
        world_mouse_y == mouse[2] + p.camera_offset_y
        dx == world_mouse_x - (p.x + p.width \div 2)
        dy == world_mouse_y - (p.y + p.height \div 2)
    IN  [player |-> [p EXCEPT !.direction =
                        IF Abs(dx) > Abs(dy)
                        THEN (IF dx > 0 THEN DIRECTION_RIGHT ELSE DIRECTION_LEFT)
                        ELSE (IF dy > 0 THEN DIRECTION_DOWN ELSE DIRECTION_UP)],
         ret |-> <<FloorDiv(world_mouse_x, TILE_SIZE), FloorDiv(world_mouse_y, TILE_SIZE)>>]

\* Player.update_interaction_target for the result f of
\* get_facing_tile_position.
Targeted(f, chs) ==
    [f.player EXCEPT !.interaction_target = get_object_at_tile(chs, f.ret[1], f.ret[2]).ret,
                     !.has_interaction_range = TRUE,
                     !.interaction_range = 150]

\* Player.update_interaction_target
update_interaction_target(p, chs, mouse) == Targeted(get_facing_tile_position(p, mouse), chs)

\* The position fields after move committed the step.
Committed(p, dx, dy) ==
    [p EXCEPT !.x = p.x + dx,
              !.y = p.y + dy,
              !.tile_x = FloorDiv(p.x + dx, TILE_SIZE),
              !.tile_y = FloorDiv(p.y + dy, TILE_SIZE),
              !.chunk_x = FloorDiv(FloorDiv(p.x + dx, TILE_SIZE), CHUNK_SIZE),
              !.chunk_y = FloorDiv(FloorDiv(p.y + dy, TILE_SIZE), CHUNK_SIZE)]

\* move from its passability test on: pass is the result of
\* world.is_tile_passable(new_tile_x, new_tile_y).
Moved(p, dx, dy, pass, mouse) ==
    [w |-> pass.w,
     committed |-> pass.ret,
     player |-> update_interaction_target(IF pass.ret THEN Committed(p, dx, dy) ELSE p,
                                          pass.w.chunks, mouse)]

\* Player.move(dx, dy, world): the world and the player after the call.
move(p, w, dx, dy, mouse, e) ==
    Moved([Animated(p, dx, dy) EXCEPT !.direction = MoveDirection(p.direction, dx, dy)],
          dx, dy,
          is_tile_passable(w, FloorDiv(p.x + dx, TILE_SIZE), FloorDiv(p.y + dy, TILE_SIZE), e),
          mouse)

(***************************************************************************)
(* Game: the camera, the selected language and the mouse interaction       *)
(***************************************************************************)
\* Game.__init__: the fields of a Game but world and player.
\* current_word_data is << >> for None and <<entry>> for a ledger entry.  pc
\* is where Game.run stands in its loop: before handle_events, update or
\* draw, or "raised" once an exception ended the loop.
Game ==
    [target_language |-> "spanish",
     camera_x |-> 0,
     camera_y |-> 0,
     current_word_data |-> << >>,
     pc |-> "handle_events"]

\* The camera of Game.update: it follows the player, and the player gets a
\* copy.  self.screen_width is taken to be SCREEN_WIDTH (windowed mode).
Followed(g, p) ==
    [game |-> [g EXCEPT !.camera_x = p.x - SCREEN_WIDTH \div 2,
                        !.camera_y = p.y - SCREEN_HEIGHT \div 2],
     player |-> [p EXCEPT !.camera_offset_x = p.x - SCREEN_WIDTH \div 2,
                          !.camera_offset_y = p.y - SCREEN_HEIGHT \div 2]]

\* The file save_game.json: absent (open raises FileNotFoundError), not JSON
\* (json.load raises JSONDecodeError), or the JSON object data.  json.dump
\* and json.load give back the dictionaries, strings, integers and booleans
\* they are given.
NoFile == [kind |-> "absent"]

Unparsable == [kind |-> "unparsable"]

JsonFile(data) == [kind |-> "json", data |-> data]

\* save_progress that leaves out the position.
save_progress_NoPosition(g, p) ==
    JsonFile([score |-> p.score,
              words_learned |-> p.words_learned,
              settings |-> [language |-> g.target_language,
                            window_mode |-> WINDOW_MODE_FULLSCREEN]])

\* Game.save_progress: the file it writes.  CURRENT_WINDOW_MODE keeps its
\* initial value, WINDOW_MODE_FULLSCREEN.
save_progress(g, p) ==
    JsonFile([score |-> p.score,
              words_learned |-> p.words_learned,
              position |-> [x |-> p.x, y |-> p.y],
              settings |-> [language |-> g.target_language,
                            window_mode |-> WINDOW_MODE_FULLSCREEN]])

\* d.get(key, default) of a dictionary
Get(d, key, default) == IF key \in DOMAIN d THEN d[key] ELSE default

\* The player's defaultdict after the two loops of load_progress over
\* save_data["words_learned"]: a language without words is not stored.
LoadedWords(words_learned) ==
    [language \in {l \in DOMAIN words_learned : DOMAIN words_learned[l] # {}}
        |-> words_learned[language]]

\* load_progress after `self.player.score = save_data["score"]`, for the
\* player p it has made.
LoadedLedger(d, g, p) ==
    IF "words_learned" \notin DOMAIN d
    THEN [raised |-> TRUE, player |-> <<p>>, game |-> g]
    ELSE [raised |-> FALSE,
          player |-> <<[p EXCEPT !.words_learned = LoadedWords(d.words_learned)]>>,
          game |-> IF "settings" \in DOMAIN d
                   THEN [g EXCEPT !.target_language = Get(d.settings, "language", "spanish")]
                   ELSE g]

\* load_progress after `self.player = Player(pos_x, pos_y)`
LoadedScore(d, g, p) ==
    IF "score" \notin DOMAIN d
    THEN [raised |-> TRUE, player |-> <<p>>, game |-> g]
    ELSE LoadedLedger(d, g, [p EXCEPT !.score = d.score])

\* Game.load_progress for the game g that has no player yet: the player it
\* sets (<< >> for none, <<p>> for p), the game, and raised when an exception
\* leaves it: only FileNotFoundError and json.JSONDecodeError are caught, a
\* KeyError is not.
load_progress(file, g) ==
    IF file.kind # "json"
    THEN [raised |-> FALSE, player |-> << >>, game |-> g]
    ELSE LoadedScore(file.data, g,
                     Player(Get(Get(file.data, "position", [k \in {} |-> 0]), "x", 0),
                            Get(Get(file.data, "position", [k \in {} |-> 0]), "y", 0)))

\* `Skip if off screen` of GameObject.draw, negated: the object is drawn.  The
\* screen is taken to be SCREEN_WIDTH by SCREEN_HEIGHT.
OnScreen(obj, offset_x, offset_y) ==
    ~ \/ (obj.x - offset_x) + TILE_SIZE < 0
      \/ (obj.x - offset_x) > SCREEN_WIDTH
      \/ (obj.y - offset_y) + TILE_SIZE < 0
      \/ (obj.y - offset_y) > SCREEN_HEIGHT

\* The names whose entry in the ledger of the language is mastered.
MasteredNames(wl, language) ==
    {n \in DOMAIN WordsOf(wl, language) : wl[language][n].mastered}

\* GameObject.draw: what it leaves of the object.  It sets mastered when the
\* word of the object is mastered in the target language, and never clears it.
DrawnObject(obj, g, names) ==
    IF OnScreen(obj, g.camera_x, g.camera_y) /\ obj.obj_type \in names
    THEN [obj EXCEPT !.mastered = TRUE]
    ELSE obj

\* The `obj.draw(...)` loops of Game.draw over the objects of the chunks
\* `keys`; names are the mastered names of the target language (with none,
\* no object changes).
DrawObjects(chs, keys, g, names) ==
    IF names = {} THEN chs
    ELSE [k \in DOMAIN chs |->
            IF k \in keys
            THEN [chs[k] EXCEPT !.objects =
                    [i \in 1 .. Len(chs[k].objects) |-> DrawnObject(chs[k].objects[i], g, names)]]
            ELSE chs[k]]

\* InRange that lets every click through.
InRange_Always(dx, dy, range) == TRUE

\* `distance <= self.player.interaction_range` for
\* distance = math.sqrt(dx**2 + dy**2)
InRange(dx, dy, range) == dx * dx + dy * dy <= range * range

\* The object a reference <<key, index>> refers to.
ObjectAt(chs, ref) == chs[ref[1]].objects[ref[2]]

\* WithObject that also resets the tile of the object to grass.
WithObject_ResetsTile(chs, ref, obj) ==
    [chs EXCEPT ![ref[1]].objects[ref[2]] = obj,
                ![ref[1]].tiles = [y \in Local |-> [x \in Local |-> "grass"]]]

\* The chunks after a field of the object at ref was assigned: obj is the
\* object with its new fields.
WithObject(chs, ref, obj) == [chs EXCEPT ![ref[1]].objects[ref[2]] = obj]

\* IsRevealed that takes every object for not revealed.
IsRevealed_Never(obj) == FALSE

\* `if obj.revealed`
IsRevealed(obj) == obj.revealed

\* Toggled that learns the word again.
Toggled_Learns(g, p, chs, ref, obj) ==
    [chunks |-> WithObject(chs, ref, [obj EXCEPT !.translation_shown = ~obj.translation_shown]),
     player |-> learn_word(p, obj.obj_type, g.target_language).player,
     game |-> g,
     raised |-> FALSE,
     branch |-> "toggle"]

\* The `if obj.revealed` branch: toggle_translation, and the ledger entry of
\* the object's word, if there is one, goes on display.
Toggled(g, p, chs, ref, obj) ==
    [chunks |-> WithObject(chs, ref, [obj EXCEPT !.translation_shown = ~obj.translation_shown]),
     player |-> [p EXCEPT !.words_learned = Touched(p.words_learned, g.target_language)],
     game |-> IF obj.obj_type \in DOMAIN WordsOf(p.words_learned, g.target_language)
              THEN [g EXCEPT !.current_word_data =
                                <<p.words_learned[g.target_language][obj.obj_type]>>]
              ELSE g,
     raised |-> FALSE,
     branch |-> "toggle"]

\* The else branch: the object is revealed and its word learned; l is the
\* result of learn_word.
Revealed(g, chs, ref, obj, l) ==
    [chunks |-> WithObject(chs, ref, [obj EXCEPT !.revealed = TRUE]),
     player |-> l.player,
     game |-> [g EXCEPT !.current_word_data = <<l.ret>>],
     raised |-> FALSE,
     branch |-> "reveal"]

\* handle_mouse_interaction from `if obj:` on, ref being what
\* get_object_at_tile returned.
Clicked(g, p, chs, ref) ==
    IF ref = NoObject
    THEN [chunks |-> chs, player |-> p, game |-> g, raised |-> FALSE, branch |-> "no object"]
    ELSE IF IsRevealed(ObjectAt(chs, ref))
    THEN Toggled(g, p, chs, ref, ObjectAt(chs, ref))
    ELSE Revealed(g, chs, ref, ObjectAt(chs, ref),
                  learn_word(p, ObjectAt(chs, ref).obj_type, g.target_language))

\* Game.handle_mouse_interaction.  Reading self.player.interaction_range
\* raises AttributeError while the player has no such attribute (raised).
handle_mouse_interaction(g, p, chs, mouse) ==
    LET world_mouse_x == mouse[1] + g.camera_x
        world_mouse_y == mouse[2] + g.camera_y
        player_center_x == p.x + p.width \div 2
        player_center_y == p.y + p.height \div 2
    IN  IF ~p.has_interaction_range
        THEN [chunks |-> chs, player |-> p, game |-> g, raised |-> TRUE, branch |-> "raised"]
        ELSE IF InRange(world_mouse_x - player_center_x, world_mouse_y - player_center_y,
                        p.interaction_range)
        THEN Clicked(g, p, chs,
                     get_object_at_tile(chs, FloorDiv(world_mouse_x, TILE_SIZE),
                                        FloorDiv(world_mouse_y, TILE_SIZE)).ret)
        ELSE [chunks |-> chs, player |-> p, game |-> g, raised |-> FALSE,
              branch |-> "out of range"]

(***************************************************************************)
(* State                                                                   *)
(***************************************************************************)
VARIABLES
    chunks,             \* World.chunks: key -> chunk
    active_chunks,      \* World.active_chunks
    last_player_chunk,  \* World.last_player_chunk, NoChunk while it does not exist
    rng,                \* the state of the generator shared through `random`
    loads,              \* key -> number of times World.get_chunk built the chunk
    generators,         \* the Chunk constructions running side by side
    player,             \* Game.player: the fields of the Player
    game,               \* the fields of Game: target_language, camera, word display
    lastOp,             \* the last call: its name, argument and result
    save_game           \* the file save_game.json

vars == <<chunks, active_chunks, last_player_chunk, rng, loads, generators, player, game, lastOp,
          save_game>>

Entropy == 1 .. MaxEntropy

\* The chunk keys handed to get_chunk, update_active_chunks and Chunk.
Keys == {<<0, 0>>, <<1, -1>>}

\* The tiles handed to the lookups: the first tile of chunk (0, 0) and the
\* tile diagonally before it, which lies in chunk (-1, -1).
Tiles == {<<0, 0>>, <<-1, -1>>}

\* The tiles of the tile-mapping runs.
MapTiles == ((-MaxTile) .. MaxTile) \X ((-MaxTile) .. MaxTile)

Generators == 1 .. MaxGenerators

Empty == [k \in {} |-> 0]

\* The state after World() and before any call.
Init ==
    /\ chunks = Empty
    /\ active_chunks = {}
    /\ last_player_chunk = NoChunk
    /\ rng \in Entropy
    /\ loads = Empty
    /\ generators = << >>
    /\ player = Player(0, 0)
    /\ game = Game
    /\ save_game = NoFile
    /\ lastOp = [op |-> "World"]

World == [chunks |-> chunks, rng |-> rng, loads |-> loads]

\* The entropy value e matters only to a call that built a chunk (and so ran
\* random.seed()); a call that built none is listed once, for the first value.
EntropyUsed(w, e) == w.loads # loads \/ e = 1

\* The world variables after a world operation returned world value w.
SetWorld(w) ==
    /\ chunks' = w.chunks
    /\ rng' = w.rng
    /\ loads' = w.loads

(***************************************************************************)
(* Actions: one per call                                                   *)
(***************************************************************************)
\* A call returned the value r; `world` is the world value it left, `op` what
\* the call is recorded as.
Returned(r, e, world, op) ==
    /\ EntropyUsed(world, e)
    /\ SetWorld(world)
    /\ lastOp' = op

\* Chunk(cx, cy) built outside the dictionary: a region generated again.
ChunkReturned(key, c) ==
    /\ rng' = c.rng
    /\ lastOp' = [op |-> "Chunk", arg |-> key, ret |-> c.chunk.tiles]
    /\ UNCHANGED <<chunks, active_chunks, last_player_chunk, loads, generators, save_game, player, game>>

ChunkCall(key) ==
    \E e \in Entropy : ChunkReturned(key, Chunk(rng, key[1], key[2], e))

GetChunkReturned(key, e, w) ==
    /\ Returned(w, e, w, [op |-> "get_chunk", arg |-> key])
    /\ UNCHANGED <<active_chunks, last_player_chunk, generators, save_game, player, game>>

GetChunkCall(key) ==
    \E e \in Entropy : GetChunkReturned(key, e, get_chunk(World, key[1], key[2], e))

GetTileReturned(tile, e, t) ==
    /\ Returned(t, e, t.w, [op |-> "get_tile", arg |-> tile, chunk |-> t.chunk,
                            local |-> t.local, ret |-> t.ret])
    /\ UNCHANGED <<active_chunks, last_player_chunk, generators, save_game, player, game>>

GetTileCall(tile) ==
    \E e \in Entropy : GetTileReturned(tile, e, get_tile(World, tile[1], tile[2], e))

IsTilePassableReturned(tile, e, t) ==
    /\ Returned(t, e, t.w, [op |-> "is_tile_passable", arg |-> tile, ret |-> t.ret])
    /\ UNCHANGED <<active_chunks, last_player_chunk, generators, save_game, player, game>>

IsTilePassableCall(tile) ==
    \E e \in Entropy :
        IsTilePassableReturned(tile, e, is_tile_passable(World, tile[1], tile[2], e))

UpdateActiveChunksReturned(key, e, u) ==
    /\ Returned(u, e, u.w, [op |-> "update_active_chunks", arg |-> key, early |-> u.early])
    /\ active_chunks' = u.active
    /\ last_player_chunk' = u.last
    /\ UNCHANGED <<generators, save_game, player, game>>

UpdateActiveChunksCall(key) ==
    \E e \in Entropy :
        UpdateActiveChunksReturned(key, e,
            update_active_chunks(World, active_chunks, last_player_chunk, key[1], key[2], e))

GetObjectsReturned(g) ==
    /\ chunks' = g.chunks
    /\ rng' = g.rng
    /\ lastOp' = [op |-> "get_objects_in_active_chunks", raised |-> g.raised, ret |-> g.ret]
    /\ UNCHANGED <<active_chunks, last_player_chunk, loads, generators, save_game, player, game>>

GetObjectsCall == GetObjectsReturned(get_objects_in_active_chunks(chunks, active_chunks, rng))

GetObjectAtTileReturned(tile, g) ==
    /\ lastOp' = [op |-> "get_object_at_tile", arg |-> tile, raised |-> g.raised, ret |-> g.ret]
    /\ UNCHANGED <<chunks, active_chunks, last_player_chunk, rng, loads, generators, save_game, player, game>>

GetObjectAtTileCall(tile) ==
    GetObjectAtTileReturned(tile, get_object_at_tile(chunks, tile[1], tile[2]))

\* chunk.get_world_position(local) on the chunk and local position that the
\* get_tile call before resolved its tile to.
GetWorldPositionCall ==
    /\ lastOp.op = "get_tile"
    /\ lastOp' = [op |-> "get_world_position", arg |-> lastOp.arg, chunk |-> lastOp.chunk,
                  local |-> lastOp.local,
                  ret |-> get_world_position(chunks[lastOp.chunk], lastOp.local[1], lastOp.local[2])]
    /\ UNCHANGED <<chunks, active_chunks, last_player_chunk, rng, loads, generators, save_game, player, game>>

Next ==
    \/ \E key \in Keys : ChunkCall(key)
    \/ \E key \in Keys : GetChunkCall(key)
    \/ \E tile \in Tiles : GetTileCall(tile)
    \/ \E tile \in Tiles : IsTilePassableCall(tile)
    \/ \E key \in Keys : UpdateActiveChunksCall(key)
    \/ GetObjectsCall
    \/ \E tile \in Tiles : GetObjectAtTileCall(tile)
    \/ GetWorldPositionCall

Spec == Init /\ [][Next]_vars

(***************************************************************************)
(* Tile-mapping runs: one lookup of one tile against a fresh world.        *)
(***************************************************************************)
InitMap ==
    /\ chunks = Empty
    /\ active_chunks = {}
    /\ last_player_chunk = NoChunk
    /\ rng \in Entropy
    /\ loads = Empty
    /\ generators = << >>
    /\ player = Player(0, 0)
    /\ game = Game
    /\ save_game = NoFile
    /\ \E tile \in MapTiles : lastOp = [op |-> "input", arg |-> tile]

NextMap ==
    \/ lastOp.op = "input" /\ GetTileCall(lastOp.arg)
    \/ lastOp.op = "input" /\ IsTilePassableCall(lastOp.arg)
    \/ lastOp.op = "input" /\ GetObjectAtTileCall(lastOp.arg)
    \/ GetWorldPositionCall

SpecMap == InitMap /\ [][NextMap]_vars

(***************************************************************************)
(* Ledger runs: learn_word and get_mastery_percentage on a new Player.     *)
(***************************************************************************)
\* The catalogue entries handed to learn_word.
LedgerTypes == {"grass", "bush"}

LearnWordReturned(name, language, r) ==
    /\ player' = r.player
    /\ lastOp' = [op |-> "learn_word", arg |-> <<name, language>>, ret |-> r.ret]
    /\ UNCHANGED <<chunks, active_chunks, last_player_chunk, rng, loads, generators, save_game, game>>

LearnWordCall(name, language) ==
    /\ game.pc # "raised"
    /\ name \in DOMAIN WordsOf(player.words_learned, language)
       => player.words_learned[language][name].views < MaxViews
    /\ LearnWordReturned(name, language, learn_word(player, name, language))

GetMasteryPercentageCall(language) ==
    /\ lastOp' = [op |-> "get_mastery_percentage", arg |-> language,
                  ret |-> get_mastery_percentage(player.words_learned, language)]
    /\ UNCHANGED <<chunks, active_chunks, last_player_chunk, rng, loads, generators, save_game,
                   player, game>>

NextLedger ==
    \/ \E name \in LedgerTypes, language \in LANGUAGES : LearnWordCall(name, language)
    \/ \E language \in LANGUAGES : GetMasteryPercentageCall(language)

SpecLedger == Init /\ [][NextLedger]_vars

(***************************************************************************)
(* Play: a Game after __init__, its player moved, the mouse clicked, the   *)
(* camera and the active set updated, the objects listed for drawing and   *)
(* the language switched.                                                  *)
(***************************************************************************)
\* What load_progress finds: no save file (a new player at the origin), or a
\* save with the player next to a bush, "bush" seen four times and "grass"
\* once in Spanish.
SavedFiles ==
    {NoFile,
     JsonFile([score |-> 26,
               words_learned |-> ("spanish" :>
                    (("bush" :> [word |-> Translation("bush", "spanish"),
                                 english |-> Translation("bush", "english"),
                                 views |-> 4, mastered |-> FALSE])
                     @@ ("grass" :> [word |-> Translation("grass", "spanish"),
                                     english |-> Translation("grass", "english"),
                                     views |-> 1, mastered |-> FALSE]))),
               position |-> [x |-> 157, y |-> 125],
               settings |-> [language |-> "spanish",
                             window_mode |-> WINDOW_MODE_FULLSCREEN]])}

\* The steps asked of move: handle_events asks for -speed, 0 or speed on each
\* axis, and speed is 3.  One step is diagonal, one along an axis.
Deltas == {<<3, 3>>, <<-3, 0>>}

\* The mouse positions, in screen coordinates: the centre of the player once
\* the camera follows it, and a corner of the screen.
Mice == {<<416, 316>>, <<16, 16>>}

\* The world after `self.world.update_active_chunks(...)` of Game.__init__.
InitWorld(u) ==
    /\ chunks = u.w.chunks
    /\ rng = u.w.rng
    /\ loads = u.w.loads
    /\ active_chunks = u.active
    /\ last_player_chunk = u.last

\* Game.__init__ from `self.player = Player(0, 0) if not hasattr(self,
\* 'player') else self.player` on, for the result l of load_progress: the
\* world u after update_active_chunks, the player and the game.
Started(l, p, u) ==
    [w |-> u.w, active |-> u.active, last |-> u.last, player |-> p, game |-> l.game]

\* Game.__init__ for the result l of load_progress.  When load_progress
\* raised, __init__ is left with the world still empty.
Initialized(l, e) ==
    IF l.raised
    THEN [w |-> [chunks |-> Empty, rng |-> e, loads |-> Empty],
          active |-> {}, last |-> NoChunk,
          player |-> l.player[1],
          game |-> [l.game EXCEPT !.pc = "raised"]]
    ELSE LET p == IF l.player = << >> THEN Player(0, 0) ELSE l.player[1]
         IN  Started(l, p,
                     update_active_chunks([chunks |-> Empty, rng |-> e, loads |-> Empty],
                                          {}, NoChunk, p.chunk_x, p.chunk_y, e))

\* The state after Game.__init__ gave n, having found the file.
InitGame(file, n) ==
    /\ InitWorld(n)
    /\ player = n.player
    /\ game = n.game
    /\ generators = << >>
    /\ lastOp = [op |-> "Game"]
    /\ save_game = file

InitPlay ==
    \E file \in SavedFiles, e \in Entropy :
        InitGame(file, Initialized(load_progress(file, Game), e))

\* handle_events ends with player.move: the keys held ask for the step delta.
\* (The get_facing_tile_position that follows repeats the one move made.)
MoveReturned(delta, mouse, e, m) ==
    /\ Returned(m, e, m.w, [op |-> "move", arg |-> delta, mouse |-> mouse,
                            committed |-> m.committed])
    /\ player' = m.player
    /\ game' = [game EXCEPT !.pc = "update"]
    /\ UNCHANGED <<active_chunks, last_player_chunk, generators, save_game>>

MoveCall(delta, mouse) ==
    /\ game.pc = "handle_events"
    /\ player.animation_frame = 0
    /\ player.animation_counter < MaxMoves
    /\ \E e \in Entropy :
          MoveReturned(delta, mouse, e, move(player, World, delta[1], delta[2], mouse, e))

\* handle_events ends with no movement key held: only
\* `self.player.get_facing_tile_position()` runs.
FacingCall(mouse) ==
    /\ game.pc = "handle_events"
    /\ player' = get_facing_tile_position(player, mouse).player
    /\ game' = [game EXCEPT !.pc = "update"]
    /\ lastOp' = [op |-> "get_facing_tile_position", arg |-> mouse]
    /\ UNCHANGED <<chunks, active_chunks, last_player_chunk, rng, loads, generators, save_game>>

InteractReturned(mouse, h) ==
    /\ chunks' = h.chunks
    /\ player' = h.player
    /\ game' = [h.game EXCEPT !.pc = IF h.raised THEN "raised" ELSE @]
    /\ lastOp' = [op |-> "handle_mouse_interaction", arg |-> mouse, raised |-> h.raised,
                  branch |-> h.branch]
    /\ UNCHANGED <<active_chunks, last_player_chunk, rng, loads, generators, save_game>>

\* A left click among the events of handle_events.
InteractCall(mouse) ==
    /\ game.pc = "handle_events"
    /\ InteractReturned(mouse, handle_mouse_interaction(game, player, chunks, mouse))

UpdateReturned(e, f, u) ==
    /\ Returned(u, e, u.w, [op |-> "update", early |-> u.early])
    /\ active_chunks' = u.active
    /\ last_player_chunk' = u.last
    /\ game' = [f.game EXCEPT !.pc = "draw"]
    /\ player' = f.player
    /\ UNCHANGED <<generators, save_game>>

\* Game.update
UpdateCall ==
    /\ game.pc = "update"
    /\ \E e \in Entropy :
          UpdateReturned(e, Followed(game, player),
              update_active_chunks(World, active_chunks, last_player_chunk,
                                   FloorDiv(player.x, CHUNK_SIZE * TILE_SIZE),
                                   FloorDiv(player.y, CHUNK_SIZE * TILE_SIZE), e))

\* Game.draw: the objects of the active chunks are listed and drawn, and then
\* `distance <= self.player.interaction_range` raises AttributeError while
\* the player has no such attribute.
DrawReturned(g) ==
    /\ chunks' = DrawObjects(g.chunks, IF g.raised THEN {} ELSE g.ret, game,
                             MasteredNames(player.words_learned, game.target_language))
    /\ rng' = g.rng
    /\ game' = [game EXCEPT !.pc = IF g.raised \/ ~player.has_interaction_range
                                   THEN "raised" ELSE "handle_events"]
    /\ lastOp' = [op |-> "draw", raised |-> g.raised \/ ~player.has_interaction_range,
                  ret |-> g.ret]
    /\ UNCHANGED <<active_chunks, last_player_chunk, loads, generators, save_game, player>>

DrawCall ==
    /\ game.pc = "draw"
    /\ DrawReturned(get_objects_in_active_chunks(chunks, active_chunks, rng))

\* The keys 1 and 2 among the events of handle_events, the menu open.
SwitchLanguageCall(language) ==
    /\ game.pc = "handle_events"
    /\ language # game.target_language
    /\ game' = [game EXCEPT !.target_language = language]
    /\ lastOp' = [op |-> "switch_language", arg |-> language]
    /\ UNCHANGED <<chunks, active_chunks, last_player_chunk, rng, loads, generators, save_game, player>>

NextPlay ==
    \/ \E delta \in Deltas, mouse \in Mice : MoveCall(delta, mouse)
    \/ \E mouse \in Mice : FacingCall(mouse)
    \/ \E mouse \in Mice : InteractCall(mouse)
    \/ UpdateCall
    \/ DrawCall
    \/ \E language \in LANGUAGES : SwitchLanguageCall(language)

SpecPlay == InitPlay /\ [][NextPlay]_vars

(***************************************************************************)
(* Save and load: words are learned, the language switched, the progress   *)
(* saved, and the program started again on the file it finds.              *)
(***************************************************************************)
\* The catalogue entries handed to learn_word between saves.
SavedTypes == {"bush"}

\* What may have happened to save_game.json before the program is started
\* again: nothing, the file was removed, it was overwritten with text that is
\* not JSON, or one of its keys was removed.
Damages == {"intact", "absent", "unparsable", "score", "words_learned", "position", "settings"}

\* The file after the damage.
Found(file, damage) ==
    CASE damage = "intact" -> file
      [] damage = "absent" -> NoFile
      [] damage = "unparsable" -> Unparsable
      [] OTHER -> IF file.kind = "json"
                  THEN JsonFile([k \in DOMAIN file.data \ {damage} |-> file.data[k]])
                  ELSE file

\* The key s among the events of handle_events, the menu open.
SaveProgressCall ==
    /\ game.pc = "handle_events"
    /\ save_game' = save_progress(game, player)
    /\ lastOp' = [op |-> "save_progress"]
    /\ UNCHANGED <<chunks, active_chunks, last_player_chunk, rng, loads, generators, player, game>>

GameReturned(file, n) ==
    /\ SetWorld(n.w)
    /\ active_chunks' = n.active
    /\ last_player_chunk' = n.last
    /\ player' = n.player
    /\ game' = n.game
    /\ lastOp' = [op |-> "Game"]
    /\ save_game' = file
    /\ UNCHANGED generators

\* The program is started again, `game = Game()`, on the file it finds.  It
\* had quit: QUIT and the key q call save_progress and end the loop.
GameCall(damage) ==
    /\ lastOp.op = "save_progress"
    /\ \E e \in Entropy :
          GameReturned(Found(save_game, damage),
                       Initialized(load_progress(Found(save_game, damage), Game), e))

NextSave ==
    \/ \E name \in SavedTypes : LearnWordCall(name, game.target_language)
    \/ \E language \in LANGUAGES : SwitchLanguageCall(language)
    \/ SaveProgressCall
    \/ \E damage \in Damages : GameCall(damage)

SpecSave == InitPlay /\ [][NextSave]_vars

(***************************************************************************)
(* Concurrent runs: Chunk constructions for different keys whose steps     *)
(* interleave.  A construction is the sequence of calls of generate_tiles  *)
(* and generate_features; each call reads and writes the shared generator. *)
(***************************************************************************)
InitConc ==
    /\ chunks = Empty
    /\ active_chunks = {}
    /\ last_player_chunk = NoChunk
    /\ rng \in Entropy
    /\ loads = Empty
    /\ generators = [p \in Generators |-> [pc |-> "idle", key |-> << >>, tiles |-> << >>]]
    /\ player = Player(0, 0)
    /\ game = Game
    /\ save_game = NoFile
    /\ lastOp = [op |-> "World"]

GenFrame == UNCHANGED <<chunks, active_chunks, last_player_chunk, loads, lastOp, save_game, player, game>>

\* Generator p runs one step: from generation state [rng, tiles] to `st`.
GenAdvance(p, st, pc) ==
    /\ rng' = st.rng
    /\ generators' = [generators EXCEPT ![p].tiles = st.tiles, ![p].pc = pc]
    /\ GenFrame

GenState(p) == [rng |-> rng, tiles |-> generators[p].tiles]

\* Chunk(key) starts: the all-grass grid and random.seed(position).
GenStart(p, key) ==
    /\ generators[p].pc = "idle"
    /\ \A q \in Generators \ {p} : generators[q].key # key
    /\ rng' = SeedChunk(rng, key[1], key[2])
    /\ generators' = [generators EXCEPT ![p] = [pc |-> "path", key |-> key, tiles |-> AllGrass]]
    /\ GenFrame

GenPath(p) ==
    /\ generators[p].pc = "path"
    /\ GenAdvance(p, PathStep(GenState(p), generators[p].key[1], generators[p].key[2]), "trees")

GenTrees(p) ==
    /\ generators[p].pc = "trees"
    /\ GenAdvance(p, TreesStep(GenState(p)), "water")

GenWater(p) ==
    /\ generators[p].pc = "water"
    /\ GenAdvance(p, WaterStep(GenState(p)), "houses")

GenHouses(p) ==
    /\ generators[p].pc = "houses"
    /\ GenAdvance(p, HousesStep(GenState(p), generators[p].key[1], generators[p].key[2]), "forest")

GenForest(p) ==
    /\ generators[p].pc = "forest"
    /\ GenAdvance(p, ForestStep(GenState(p)), "animals")

GenAnimals(p) ==
    /\ generators[p].pc = "animals"
    /\ GenAdvance(p, AnimalsStep(GenState(p)), "reseed")

\* random.seed() at the end of generate_tiles
GenReseed(p) ==
    /\ generators[p].pc = "reseed"
    /\ rng' \in Entropy
    /\ generators' = [generators EXCEPT ![p].pc = "done"]
    /\ GenFrame

NextConc ==
    \E p \in Generators :
        \/ \E key \in Keys : GenStart(p, key)
        \/ GenPath(p)
        \/ GenTrees(p)
        \/ GenWater(p)
        \/ GenHouses(p)
        \/ GenForest(p)
        \/ GenAnimals(p)
        \/ GenReseed(p)

SpecConc == InitConc /\ [][NextConc]_vars

(***************************************************************************)
(* One Chunk construction, step by step, for each key near the origin      *)
(***************************************************************************)
GenKeys == ReachableCoords \X ReachableCoords

NextGen ==
    \/ \E key \in GenKeys : GenStart(1, key)
    \/ GenPath(1)
    \/ GenTrees(1)
    \/ GenWater(1)
    \/ GenHouses(1)
    \/ GenForest(1)
    \/ GenAnimals(1)
    \/ GenReseed(1)

SpecGen == InitConc /\ [][NextGen]_vars

(***************************************************************************)
(* Properties                                                              *)
(***************************************************************************)
\* The chunk coordinate c of a tile coordinate t, stated without division:
\* the c with c * CHUNK_SIZE <= t < (c + 1) * CHUNK_SIZE.
IsChunkOf(c, t) == c * CHUNK_SIZE <= t /\ t < (c + 1) * CHUNK_SIZE

TileChunk(tile) ==
    CHOOSE k \in ReachableCoords \X ReachableCoords :
        IsChunkOf(k[1], tile[1]) /\ IsChunkOf(k[2], tile[2])

\* C1: a Chunk(key) construction yields the grid every other construction for
\* the same key yields: the grid of the chunk cached under that key, if one is
\* cached (whatever was generated or drawn since), and the grid of a
\* Chunk(key) construction right before it.
C1_Deterministic ==
    [][ /\ lastOp'.op = "Chunk" /\ lastOp'.arg \in DOMAIN chunks'
           => lastOp'.ret = chunks'[lastOp'.arg].tiles
        /\ lastOp.op = "Chunk" /\ lastOp'.op = "Chunk" /\ lastOp'.arg = lastOp.arg
           => lastOp'.ret = lastOp.ret
        /\ lastOp.op = "Chunk" /\ lastOp.arg \in DOMAIN chunks'
           => chunks'[lastOp.arg].tiles = lastOp.ret ]_vars

\* A chunk is generated again while it is cached with its objects built (so
\* after other chunks were generated and after draws from the generator).
C1_Witness ==
    /\ lastOp.op = "Chunk"
    /\ lastOp.arg \in DOMAIN chunks
    /\ chunks[lastOp.arg].objects # << >>
    /\ Cardinality(DOMAIN chunks) > 1

\* C2 (as claimed): a Chunk construction leaves the shared generator in the
\* state it found it in.
C2_GeneratorUntouched ==
    [][lastOp'.op = "Chunk" => rng' = rng]_vars

\* C3 (as claimed): a Chunk construction whose steps interleave with those of
\* a construction for another key ends with the grid it yields when run alone.
C3_ConcurrentSafe ==
    \A p \in DOMAIN generators :
        generators[p].pc = "done"
            => generators[p].tiles
               = FeaturesFrom(SeedOf(generators[p].key[1], generators[p].key[2]),
                              generators[p].key[1], generators[p].key[2])

\* C4: get_tile resolves every tile, negative or not, to chunk = floor(t / N)
\* and local = t mod N with local in [0, N) and chunk * N + local = t on both
\* axes; tile (-1, -1) resolves to chunk (-1, -1), local (15, 15); and
\* get_world_position of that chunk and local position is the tile again.
C4_TileMapping ==
    /\ lastOp.op \in {"get_tile", "get_world_position"}
       => \A i \in 1 .. 2 :
            /\ lastOp.local[i] \in 0 .. (CHUNK_SIZE - 1)
            /\ IsChunkOf(lastOp.chunk[i], lastOp.arg[i])
            /\ lastOp.chunk[i] * CHUNK_SIZE + lastOp.local[i] = lastOp.arg[i]
    /\ lastOp.op \in {"get_tile", "get_world_position"} /\ lastOp.arg = <<-1, -1>>
       => lastOp.chunk = <<-1, -1>> /\ lastOp.local = <<15, 15>>
    /\ lastOp.op = "get_world_position" => lastOp.ret = lastOp.arg

C4_Witness ==
    /\ lastOp.op = "get_world_position"
    /\ lastOp.arg = <<-1, -1>>
    /\ lastOp.ret = <<-1, -1>>

\* C5: no call removes a chunk from the dictionary or changes its grid; every
\* key get_chunk was called with is in the dictionary and was built once; a
\* get_chunk call for a cached key returns the cached chunk as it is (same
\* grid, same objects with their flags).
C5_CacheNeverEvicts ==
    [][ /\ \A k \in DOMAIN chunks :
            k \in DOMAIN chunks' /\ chunks'[k].tiles = chunks[k].tiles
        /\ \A k \in DOMAIN loads' : k \in DOMAIN chunks' /\ loads'[k] <= 1
        /\ lastOp'.op = "get_chunk"
           => /\ lastOp'.arg \in DOMAIN chunks'
              /\ lastOp'.arg \in DOMAIN loads'
              /\ lastOp'.arg \in DOMAIN chunks
                 => chunks'[lastOp'.arg] = chunks[lastOp'.arg] ]_vars

\* get_chunk was called for a key whose chunk was cached with objects built.
C5_Witness ==
    /\ lastOp.op = "get_chunk"
    /\ lastOp.arg \in DOMAIN chunks
    /\ chunks[lastOp.arg].objects # << >>
    /\ loads[lastOp.arg] = 1

\* C6: update_active_chunks called with the recorded last_player_chunk returns
\* early: no chunk is built, and the dictionary, the active set and the
\* recorded key are unchanged; any other call, the first one included,
\* does not return early and records its key.
C6_Memoized ==
    [][ lastOp'.op = "update_active_chunks"
        => IF last_player_chunk # NoChunk /\ lastOp'.arg = last_player_chunk
           THEN /\ lastOp'.early
                /\ chunks' = chunks
                /\ loads' = loads
                /\ active_chunks' = active_chunks
                /\ last_player_chunk' = last_player_chunk
           ELSE /\ ~lastOp'.early
                /\ last_player_chunk' = lastOp'.arg ]_vars

C6_Witness ==
    /\ lastOp.op = "update_active_chunks"
    /\ lastOp.early
    /\ lastOp.arg = last_player_chunk
    /\ active_chunks # {}

\* The window of radius RENDER_DISTANCE around key c cut at Manhattan
\* distance 1.5 * RENDER_DISTANCE.
Window(c) ==
    {k \in ((c[1] - RENDER_DISTANCE) .. (c[1] + RENDER_DISTANCE))
           \X ((c[2] - RENDER_DISTANCE) .. (c[2] + RENDER_DISTANCE)) :
        2 * (Abs(k[1] - c[1]) + Abs(k[2] - c[2])) <= 3 * RENDER_DISTANCE}

\* The 5 x 5 block around c without its four corners.
BlockWithoutCorners(c) ==
    ((c[1] - 2) .. (c[1] + 2)) \X ((c[2] - 2) .. (c[2] + 2))
    \ {<<c[1] - 2, c[2] - 2>>, <<c[1] - 2, c[2] + 2>>,
       <<c[1] + 2, c[2] - 2>>, <<c[1] + 2, c[2] + 2>>}

\* C7: after update_active_chunks(c) with c different from the recorded key
\* the active set is exactly the window around c (the 5 x 5 block without its
\* corners, 21 keys); the keys that were active and are outside it are no
\* longer active, and their chunks are still in the dictionary, unchanged.
C7_ActiveWindow ==
    [][ lastOp'.op = "update_active_chunks"
        /\ ~(last_player_chunk # NoChunk /\ lastOp'.arg = last_player_chunk)
        => /\ active_chunks' = Window(lastOp'.arg)
           /\ active_chunks' = BlockWithoutCorners(lastOp'.arg)
           /\ Cardinality(active_chunks') = 21
           /\ \A k \in active_chunks \ Window(lastOp'.arg) :
                /\ k \notin active_chunks'
                /\ k \in DOMAIN chunks'
                /\ chunks'[k] = chunks[k] ]_vars

\* The active set moved from around (0, 0) to around (1, -1): (-2, 0) was
\* active, is not any more, and is still cached.
C7_Witness ==
    /\ lastOp.op = "update_active_chunks"
    /\ ~lastOp.early
    /\ lastOp.arg = <<1, -1>>
    /\ <<-2, 0>> \in DOMAIN chunks
    /\ <<-2, 0>> \notin active_chunks

\* C8: every active key has a chunk in the dictionary, and
\* get_objects_in_active_chunks never fails on a missing chunk.
C8_ActiveAreLoaded ==
    /\ active_chunks \subseteq DOMAIN chunks
    /\ lastOp.op = "get_objects_in_active_chunks" => ~lastOp.raised

\* The objects of the active chunks were collected after the active set had
\* moved, so that part of it was active before and was not loaded again.
C8_Witness ==
    /\ lastOp.op = "get_objects_in_active_chunks"
    /\ lastOp.ret = active_chunks
    /\ last_player_chunk = <<1, -1>>
    /\ <<-2, 0>> \in DOMAIN chunks
    /\ \A k \in active_chunks : chunks[k].objects # << >>

\* C9: get_object_at_tile changes neither the dictionary nor the active set,
\* raises no error, and returns None for a tile whose chunk is not loaded.
C9_PureLookup ==
    [][ lastOp'.op = "get_object_at_tile"
        => /\ chunks' = chunks
           /\ loads' = loads
           /\ active_chunks' = active_chunks
           /\ ~lastOp'.raised
           /\ TileChunk(lastOp'.arg) \notin DOMAIN chunks => lastOp'.ret = NoObject ]_vars

\* A lookup of a tile whose chunk is not loaded, while another chunk is.
C9_Witness ==
    /\ lastOp.op = "get_object_at_tile"
    /\ TileChunk(lastOp.arg) \notin DOMAIN chunks
    /\ DOMAIN chunks # {}
    /\ ~lastOp.raised
    /\ lastOp.ret = NoObject

\* C10 (as claimed): get_tile of a tile whose chunk is not loaded returns
\* None, and is_tile_passable of such a tile returns FALSE.
C10_AbsentWhenNotLoaded ==
    [][ /\ lastOp'.op = "get_tile" /\ TileChunk(lastOp'.arg) \notin DOMAIN chunks
           => lastOp'.ret = None
        /\ lastOp'.op = "is_tile_passable" /\ TileChunk(lastOp'.arg) \notin DOMAIN chunks
           => lastOp'.ret = FALSE ]_vars

\* The entry of (language, name) in ledger wl, << >> when there is none.
EntryOf(wl, language, name) ==
    IF language \in DOMAIN wl /\ name \in DOMAIN wl[language]
    THEN <<wl[language][name]>>
    ELSE << >>

\* The (language, name) pairs that have an entry in ledger wl.
EntryKeys(wl) ==
    {k \in LANGUAGES \X GAME_OBJECTS : EntryOf(wl, k[1], k[2]) # << >>}

\* C17: learn_word(name, language) for a pair without entry creates the entry
\* with views 1, not mastered, and adds 10 to the score; for a pair with an
\* entry it adds 1 to views and adds 50 when the entry becomes mastered, 2
\* when it is not mastered afterwards, 0 when it was mastered before; it
\* returns the entry, and the entry of no other pair changes.
C17_RevealScoring ==
    [][ lastOp'.op = "learn_word"
        => LET name == lastOp'.arg[1]
               language == lastOp'.arg[2]
               old == EntryOf(player.words_learned, language, name)
               new == EntryOf(player'.words_learned, language, name)
           IN  /\ new = <<lastOp'.ret>>
               /\ old = << >>
                  => /\ new[1].views = 1
                     /\ ~new[1].mastered
                     /\ player'.score = player.score + 10
               /\ old # << >>
                  => /\ new[1].views = old[1].views + 1
                     /\ player'.score - player.score
                        = IF old[1].mastered THEN 0
                          ELSE IF new[1].mastered THEN 50
                          ELSE 2
               /\ \A k \in LANGUAGES \X GAME_OBJECTS :
                    k # <<language, name>>
                    => EntryOf(player'.words_learned, k[1], k[2])
                       = EntryOf(player.words_learned, k[1], k[2]) ]_vars

\* A mastered entry was viewed again while other entries exist.
C17_Witness ==
    /\ lastOp.op = "learn_word"
    /\ lastOp.ret.views = 6
    /\ lastOp.ret.mastered
    /\ Cardinality(EntryKeys(player.words_learned)) > 2

\* C18: from the empty ledger, every entry has views >= 1 and is mastered
\* exactly when its views are at least 5.
C18_MasteredAtFive ==
    \A k \in EntryKeys(player.words_learned) :
        /\ player.words_learned[k[1]][k[2]].views >= 1
        /\ player.words_learned[k[1]][k[2]].mastered
           = (player.words_learned[k[1]][k[2]].views >= 5)

\* The fifth view of a word was just recorded, next to a word with four views.
C18_Witness ==
    /\ lastOp.op = "learn_word"
    /\ lastOp.ret.views = 5
    /\ lastOp.ret.mastered
    /\ \E k \in EntryKeys(player.words_learned) :
         /\ player.words_learned[k[1]][k[2]].views = 4
         /\ ~player.words_learned[k[1]][k[2]].mastered

\* C20: get_mastery_percentage(language) changes nothing; it returns 0 for a
\* language without entries and otherwise mastered / total * 100 over the
\* entries of that language alone; the value lies between 0 and 100.
C20_MasteryPercentage ==
    [][ lastOp'.op = "get_mastery_percentage"
        => LET names == {n \in GAME_OBJECTS :
                            EntryOf(player.words_learned, lastOp'.arg, n) # << >>}
               mastered == {n \in names : player.words_learned[lastOp'.arg][n].mastered}
               ret == lastOp'.ret
           IN  /\ player' = player
               /\ ret.den > 0
               /\ names = {} => ret.num = 0
               /\ names # {}
                  => ret.num * Cardinality(names) = Cardinality(mastered) * 100 * ret.den
               /\ 0 <= ret.num
               /\ ret.num <= 100 * ret.den ]_vars

\* The percentage of a language with a mastered and a not mastered word was
\* asked for, while the other language has a different share of mastered words.
C20_Witness ==
    /\ lastOp.op = "get_mastery_percentage"
    /\ lastOp.ret.num = 100
    /\ lastOp.ret.den = 2
    /\ \E l \in LANGUAGES \ {lastOp.arg} :
         \E n \in LedgerTypes : EntryOf(player.words_learned, l, n) # << >>

\* The tile that holds pixel position px: on each axis, the pixel less its
\* offset into its tile (0 .. TILE_SIZE - 1), in tiles.
PixelTile(px) ==
    <<(px[1] - (px[1] % TILE_SIZE)) \div TILE_SIZE, (px[2] - (px[2] % TILE_SIZE)) \div TILE_SIZE>>

\* The name on the grid of the loaded chunk that holds the tile.
GridName(chs, tile) ==
    chs[TileChunk(tile)].tiles[tile[2] - TileChunk(tile)[2] * CHUNK_SIZE]
                              [tile[1] - TileChunk(tile)[1] * CHUNK_SIZE]

\* The tile names a player can walk on.
WalkableNames == {"grass", "path", "flower", "mushroom", "rabbit", "bird"}

\* C12: move(dx, dy) commits exactly when the tile that holds the combined
\* destination (x + dx, y + dy) is passable.  On commit the position is
\* (x + dx, y + dy) and the tile and chunk coordinates are those of the new
\* position; on rejection position, tile and chunk coordinates are unchanged.
C12_MoveCommitsIffPassable ==
    [][ lastOp'.op = "move"
        => LET dest == PixelTile(<<player.x + lastOp'.arg[1], player.y + lastOp'.arg[2]>>)
           IN  IF GridName(chunks', dest) \in WalkableNames
               THEN /\ lastOp'.committed
                    /\ player'.x = player.x + lastOp'.arg[1]
                    /\ player'.y = player.y + lastOp'.arg[2]
                    /\ <<player'.tile_x, player'.tile_y>> = dest
                    /\ <<player'.chunk_x, player'.chunk_y>> = TileChunk(dest)
               ELSE /\ ~lastOp'.committed
                    /\ \A f \in {"x", "y", "tile_x", "tile_y", "chunk_x", "chunk_y"} :
                         player'[f] = player[f] ]_vars

\* A diagonal step was rejected although the step along each axis alone leads
\* to a passable tile.
C12_Witness ==
    /\ lastOp.op = "move"
    /\ lastOp.arg = <<3, 3>>
    /\ ~lastOp.committed
    /\ GridName(chunks, PixelTile(<<player.x + 3, player.y>>)) \in WalkableNames
    /\ GridName(chunks, PixelTile(<<player.x, player.y + 3>>)) \in WalkableNames

\* C13: after move(dx, dy) the player faces along the axis with the larger
\* |delta|, in the direction of its sign; with |dx| = |dy| the facing is the
\* one before the call.
C13_FacingFromDominantDelta ==
    [][ lastOp'.op = "move"
        => player'.direction =
             IF Abs(lastOp'.arg[1]) > Abs(lastOp'.arg[2])
             THEN (IF lastOp'.arg[1] > 0 THEN DIRECTION_RIGHT ELSE DIRECTION_LEFT)
             ELSE IF Abs(lastOp'.arg[2]) > Abs(lastOp'.arg[1])
             THEN (IF lastOp'.arg[2] > 0 THEN DIRECTION_DOWN ELSE DIRECTION_UP)
             ELSE player.direction ]_vars

\* The pointer of a click at screen position mouse, in world coordinates.
Pointer(g, mouse) == <<mouse[1] + g.camera_x, mouse[2] + g.camera_y>>

\* The square of the distance from the centre of the player to the pointer.
PointerDistance2(g, p, mouse) ==
    (Pointer(g, mouse)[1] - (p.x + p.width \div 2)) * (Pointer(g, mouse)[1] - (p.x + p.width \div 2))
    + (Pointer(g, mouse)[2] - (p.y + p.height \div 2)) * (Pointer(g, mouse)[2] - (p.y + p.height \div 2))

\* The object on the tile under the pointer: << >> or <<object>>.
PointedObject(chs, g, mouse) ==
    LET ref == get_object_at_tile(chs, PixelTile(Pointer(g, mouse))[1],
                                  PixelTile(Pointer(g, mouse))[2]).ret
    IN  IF ref = NoObject THEN << >> ELSE <<chs[ref[1]].objects[ref[2]]>>

\* C14: a click whose pointer is farther than 150 pixels from the centre of
\* the player changes nothing: the ledger, the score and the objects with
\* their revealed and translation_shown flags are as before.
C14_OutOfRangeNoChange ==
    [][ lastOp'.op = "handle_mouse_interaction"
        /\ PointerDistance2(game, player, lastOp'.arg) > 150 * 150
        => /\ player' = player
           /\ chunks' = chunks
           /\ game'.current_word_data = game.current_word_data ]_vars

\* A click out of range by a player whose range is set, on a tile that holds
\* an object not yet revealed.
C14_Witness ==
    /\ lastOp.op = "handle_mouse_interaction"
    /\ lastOp.branch = "out of range"
    /\ PointerDistance2(game, player, lastOp.arg) > 150 * 150
    /\ PointedObject(chunks, game, lastOp.arg) # << >>
    /\ ~PointedObject(chunks, game, lastOp.arg)[1].revealed

\* C15: a click within 150 pixels of the centre of the player, on a tile whose
\* object is not yet revealed, sets revealed, leaves translation_shown as it
\* was, calls learn_word once for the type of the object and the selected
\* language (the entry is created with views 1 or its views grow by 1) and
\* puts the entry returned on display; such a click on a tile without object
\* returns without a change.
C15_InRangeReveals ==
    [][ lastOp'.op = "handle_mouse_interaction"
        /\ PointerDistance2(game, player, lastOp'.arg) <= 150 * 150
        => IF PointedObject(chunks, game, lastOp'.arg) = << >>
           THEN /\ ~lastOp'.raised
                /\ player' = player
                /\ chunks' = chunks
           ELSE ~PointedObject(chunks, game, lastOp'.arg)[1].revealed
                => LET old == PointedObject(chunks, game, lastOp'.arg)[1]
                       new == PointedObject(chunks', game, lastOp'.arg)[1]
                       before == EntryOf(player.words_learned, game.target_language, old.obj_type)
                       after == EntryOf(player'.words_learned, game.target_language, old.obj_type)
                   IN  /\ ~lastOp'.raised
                       /\ new = [old EXCEPT !.revealed = TRUE]
                       /\ after # << >>
                       /\ after[1].views = IF before = << >> THEN 1 ELSE before[1].views + 1
                       /\ game'.current_word_data = after
                       /\ \A k \in EntryKeys(player'.words_learned) \ {<<game.target_language, old.obj_type>>} :
                             EntryOf(player'.words_learned, k[1], k[2])
                                = EntryOf(player.words_learned, k[1], k[2]) ]_vars

\* C16: a click within 150 pixels of the centre of the player on a tile whose
\* object is already revealed toggles translation_shown of that object and
\* nothing else of it; the entry of every (language, type) pair, present or
\* absent, and the score are as before.
C16_ToggleOnly ==
    [][ /\ lastOp'.op = "handle_mouse_interaction"
        /\ PointerDistance2(game, player, lastOp'.arg) <= 150 * 150
        /\ PointedObject(chunks, game, lastOp'.arg) # << >>
        /\ PointedObject(chunks, game, lastOp'.arg)[1].revealed
        => LET old == PointedObject(chunks, game, lastOp'.arg)[1]
               new == PointedObject(chunks', game, lastOp'.arg)[1]
           IN  /\ ~lastOp'.raised
               /\ new = [old EXCEPT !.translation_shown = ~old.translation_shown]
               /\ new.revealed
               /\ player'.score = player.score
               /\ \A k \in LANGUAGES \X GAME_OBJECTS :
                     EntryOf(player'.words_learned, k[1], k[2])
                        = EntryOf(player.words_learned, k[1], k[2]) ]_vars

\* The translation of a revealed object was toggled on while the selected
\* language has no entry for the type of the object.
C16_Witness ==
    /\ lastOp.op = "handle_mouse_interaction"
    /\ lastOp.branch = "toggle"
    /\ PointedObject(chunks, game, lastOp.arg) # << >>
    /\ PointedObject(chunks, game, lastOp.arg)[1].translation_shown
    /\ EntryOf(player.words_learned, game.target_language,
               PointedObject(chunks, game, lastOp.arg)[1].obj_type) = << >>
    /\ EntryKeys(player.words_learned) # {}

\* The tiles whose lookups are compared from state to state: the origin, the
\* bush next to the saved player, and a tile of chunk (-1, 0).
ProbeTiles == {<<0, 0>>, <<5, 4>>, <<-1, 0>>}

\* C11: the grid of a loaded chunk is the same after every step of the game
\* (a move, a click and its reveal, update with its update_active_chunks,
\* draw with its get_objects_in_active_chunks, a language switch), and so
\* get_tile and is_tile_passable answer the same for a tile of a loaded chunk
\* before and after the step, whatever flags the objects carry.
C11_GridImmutable ==
    [][ /\ \A k \in DOMAIN chunks :
            k \in DOMAIN chunks' /\ chunks'[k].tiles = chunks[k].tiles
        /\ \A t \in ProbeTiles :
            TileChunk(t) \in DOMAIN chunks
            => /\ get_tile([chunks |-> chunks', rng |-> rng', loads |-> loads'], t[1], t[2], 1).ret
                    = get_tile(World, t[1], t[2], 1).ret
               /\ is_tile_passable([chunks |-> chunks', rng |-> rng', loads |-> loads'], t[1], t[2], 1).ret
                    = is_tile_passable(World, t[1], t[2], 1).ret ]_vars

\* A bush was revealed and its word mastered by the click; the tile under it
\* is a bush still and not passable.
C11_Witness ==
    /\ lastOp.op = "handle_mouse_interaction"
    /\ lastOp.branch = "reveal"
    /\ PointedObject(chunks, game, lastOp.arg) # << >>
    /\ PointedObject(chunks, game, lastOp.arg)[1].revealed
    /\ PointedObject(chunks, game, lastOp.arg)[1].obj_type = "bush"
    /\ GridName(chunks, PixelTile(Pointer(game, lastOp.arg))) = "bush"
    /\ ~is_tile_passable(World, 5, 4, 1).ret
    /\ EntryOf(player.words_learned, game.target_language, "bush")[1].mastered

\* C19: over every step of the game (a move, a click and its reveal, update,
\* draw, a language switch) every ledger entry stays in the ledger, has at
\* least one view and no fewer views than before, and stays mastered once it
\* is mastered.
C19_NoRegress ==
    [][ \A k \in EntryKeys(player.words_learned) :
            /\ k \in EntryKeys(player'.words_learned)
            /\ player.words_learned[k[1]][k[2]].views >= 1
            /\ player'.words_learned[k[1]][k[2]].views >= player.words_learned[k[1]][k[2]].views
            /\ player.words_learned[k[1]][k[2]].mastered
               => player'.words_learned[k[1]][k[2]].mastered ]_vars

\* The language was switched while a word is mastered and another is not.
C19_Witness ==
    /\ lastOp.op = "switch_language"
    /\ \E k \in EntryKeys(player.words_learned) : player.words_learned[k[1]][k[2]].mastered
    /\ \E k \in EntryKeys(player.words_learned) : ~player.words_learned[k[1]][k[2]].mastered

\* C21: in every state the mastered flag of every object equals the mastered
\* flag of the ledger entry for its type in the target language, and is FALSE
\* when there is no such entry.
C21_MasteredProjection ==
    \A k \in DOMAIN chunks :
        \A i \in 1 .. Len(chunks[k].objects) :
            chunks[k].objects[i].mastered
                = (chunks[k].objects[i].obj_type
                     \in MasteredNames(player.words_learned, game.target_language))

\* The object list objs is in one-to-one correspondence with the grid of the
\* chunk at key k: CHUNK_SIZE * CHUNK_SIZE objects, one per cell, each at world
\* position key * CHUNK_SIZE + local (in pixels) and of the type of its cell.
MatchesGrid(k, tiles, objs) ==
    /\ Len(objs) = CHUNK_SIZE * CHUNK_SIZE
    /\ \A y \in 0 .. (CHUNK_SIZE - 1), x \in 0 .. (CHUNK_SIZE - 1) :
          LET obj == objs[y * CHUNK_SIZE + x + 1]
          IN  /\ obj.x = (k[1] * CHUNK_SIZE + x) * TILE_SIZE
              /\ obj.y = (k[2] * CHUNK_SIZE + y) * TILE_SIZE
              /\ obj.obj_type = tiles[y][x]

\* The objects new are the objects old: as many, each with the position and
\* type it had, and, when flags is asked, with the revealed and
\* translation_shown it had.
SameObjects(old, new, flags) ==
    /\ Len(new) = Len(old)
    /\ \A i \in 1 .. Len(old) :
          /\ new[i].x = old[i].x
          /\ new[i].y = old[i].y
          /\ new[i].obj_type = old[i].obj_type
          /\ flags => /\ new[i].revealed = old[i].revealed
                      /\ new[i].translation_shown = old[i].translation_shown

\* The object list of the chunk at key k before the step; << >> when the chunk
\* is loaded by the step.
ObjectsBefore(k) == IF k \in DOMAIN chunks THEN chunks[k].objects ELSE << >>

Persisted(g, p) ==
    [score |-> p.score,
     entries |-> [k \in LANGUAGES \X GAME_OBJECTS |-> EntryOf(p.words_learned, k[1], k[2])],
     x |-> p.x,
     y |-> p.y,
     language |-> g.target_language]

\* C23: save followed by load is the identity on the persisted fields: when
\* the program is started on the file that save_progress wrote for the state
\* it was in, the new game has the same score, the same ledger entries (word,
\* english, views, mastered by language and name), the same player position
\* and the same target language.
C23_SaveLoadIdentity ==
    [][(lastOp'.op = "Game" /\ save_game' = save_progress(game, player))
          => /\ game'.pc # "raised"
             /\ Persisted(game', player') = Persisted(game, player)]_vars

\* C23's case: the program was started on the file it had saved, with the
\* player away from the origin, French selected, and a mastered entry and an
\* entry in each language in the ledger.
C23_Witness ==
    /\ lastOp.op = "Game"
    /\ save_game = save_progress(game, player)
    /\ player.x = 157
    /\ game.target_language = "french"
    /\ EntryOf(player.words_learned, "french", "bush") # << >>
    /\ EntryOf(player.words_learned, "spanish", "bush") # << >>
    /\ player.words_learned["spanish"]["bush"].mastered

\* The file lacks nothing: it is a JSON object with the four keys.
WellFormed(file) ==
    /\ file.kind = "json"
    /\ DOMAIN file.data = {"score", "words_learned", "position", "settings"}

\* C24: loading a malformed save never propagates an error and never leaves a
\* partially loaded state: after the program was started on a file that is
\* absent, not JSON or lacks a key, the player is at the origin with score 0
\* and an empty ledger, and the language is the default.
C24_MalformedLoadsFresh ==
    (lastOp.op = "Game" /\ ~WellFormed(save_game))
        => /\ game.pc # "raised"
           /\ Persisted(game, player) = Persisted(Game, Player(0, 0))

\* C27: the player's interaction_range is defined from construction: in every
\* state, that of a new or newly loaded player that has not moved included,
\* the attribute exists, so a click and the range check of a frame read it
\* without error.
C27_InteractionRangeDefined == player.has_interaction_range

\* C28: for every tile of a chunk in the dictionary, get_object_at_tile
\* returns the object of the tile (at the position of the tile, of the type
\* get_tile gives), also when the chunk was loaded by get_tile,
\* is_tile_passable or update_active_chunks and
\* get_objects_in_active_chunks has not been called for it.
C28_ObjectOfCachedTile ==
    [][(lastOp'.op = "get_object_at_tile" /\ TileChunk(lastOp'.arg) \in DOMAIN chunks)
          => /\ lastOp'.ret # NoObject
             /\ get_tile_position(chunks[lastOp'.ret[1]].objects[lastOp'.ret[2]]) = lastOp'.arg
             /\ chunks[lastOp'.ret[1]].objects[lastOp'.ret[2]].obj_type
                   = GridName(chunks, lastOp'.arg)]_vars

\* What an entry with v views has added to the score, as C29 states it.
ViewScore(v) == IF v >= 5 THEN 66 ELSE 10 + 2 * (v - 1)

\* The sum of ViewScore over the entries of ledger wl at the keys.
RECURSIVE LedgerScore(_, _)
LedgerScore(wl, keys) ==
    IF keys = {} THEN 0
    ELSE LET k == CHOOSE key \in keys : TRUE
         IN  ViewScore(wl[k[1]][k[2]].views) + LedgerScore(wl, keys \ {k})

\* C29: from score 0 and an empty ledger, the score never decreases and is a
\* function of the ledger alone: the sum over the (language, name) entries of
\* 10 + 2 * (views - 1) for 1 to 4 views and 66 for 5 views or more.
C29_ScoreOfLedger ==
    [][/\ player'.score >= player.score
       /\ player.score = LedgerScore(player.words_learned, EntryKeys(player.words_learned))
       /\ player'.score = LedgerScore(player'.words_learned, EntryKeys(player'.words_learned))]_vars

\* C29's case: learn_word returned for an entry that was mastered before,
\* with entries in both languages, one of them seen fewer than five times.
C29_Witness ==
    /\ lastOp.op = "learn_word"
    /\ lastOp.ret.views > 5
    /\ \E k \in EntryKeys(player.words_learned) :
          k[1] # lastOp.arg[2] /\ player.words_learned[k[1]][k[2]].views \in 2 .. 4
    /\ player.score > 66

\* The views of name in ledger wl, summed over the languages.
RECURSIVE ViewsOf(_, _, _)
ViewsOf(wl, name, languages) ==
    IF languages = {} THEN 0
    ELSE LET l == CHOOSE language \in languages : TRUE
         IN  (IF EntryOf(wl, l, name) = << >> THEN 0 ELSE wl[l][name].views)
               + ViewsOf(wl, name, languages \ {l})

\* The objects of the chunks chs that are revealed, as <<key, index>>.
RevealedObjects(chs) ==
    UNION {{<<k, i>> : i \in {j \in 1 .. Len(chs[k].objects) : chs[k].objects[j].revealed}} :
             k \in DOMAIN chs}

\* The ledger the game started with: that of the file load_progress found,
\* empty when it found none.
StartLedger ==
    IF save_game.kind = "json" THEN LoadedWords(save_game.data.words_learned) ELSE Empty

\* Every name has as many views, over all languages, as the ledger had at the
\* start plus one for each revealed object of the name.
OneViewEach(revealed) ==
    \A name \in GAME_OBJECTS :
        ViewsOf(player.words_learned, name, LANGUAGES)
            = ViewsOf(StartLedger, name, LANGUAGES)
                + Cardinality({ref \in revealed : chunks[ref[1]].objects[ref[2]].obj_type = name})

Priority(name) ==
    CASE name = "path" -> 5
      [] name \in {"water", "tree"} -> 4
      [] name \in {"house", "flower"} -> 3
      [] name \in {"log", "bush", "mushroom"} -> 2
      [] name \in {"rabbit", "bird"} -> 1
      [] OTHER -> 0

\* C26: generation respects the priority paths > water/trees > houses >
\* forest elements > animals: no step of a Chunk construction replaces the
\* feature of a cell by one of lower priority; a path cell stays a path cell
\* and a tree is never replaced by an animal.
C26_PriorityRespected ==
    [][\A p \in Generators :
          (generators[p].tiles # << >> /\ generators'[p].tiles # generators[p].tiles)
             => \A y \in 0 .. (CHUNK_SIZE - 1), x \in 0 .. (CHUNK_SIZE - 1) :
                   Priority(generators'[p].tiles[y][x]) >= Priority(generators[p].tiles[y][x])]_vars

\* The position generate_houses draws at attempt number `attempt` (from 0) of
\* its first house, s being the generator state after the number of houses
\* was drawn.
FirstHouseDraw(s, attempt) ==
    <<RandInt(RngSkip(s, 2 * attempt + 1), 1, CHUNK_SIZE - 2),
      RandInt(RngSkip(s, 2 * attempt + 2), 1, CHUNK_SIZE - 2)>>

\* The acceptance of C25: the cell is not water, path or house, and a path
\* lies in its 3 x 3 neighbourhood or `failed` attempts have failed, failed
\* being at least `enough`.
Accepts(tiles, pos, failed, enough) ==
    /\ tiles[pos[2]][pos[1]] \notin {"water", "path", "house"}
    /\ Nearby(tiles, pos[1], pos[2], "path") \/ failed >= enough

\* The cells of the grid that hold a house.
HouseCells(tiles) == {c \in Local \X Local : tiles[c[2]][c[1]] = "house"}

\* generate_houses took the grid `old` to `new`, the generator being s after
\* the number of houses was drawn: the houses are new houses at interior
\* cells, at most 3, and when a house is asked for, its first accepted attempt
\* places it.
HousesPlaced(old, new, s, enough) ==
    LET accepted == {a \in 0 .. 9 : Accepts(old, FirstHouseDraw(s, a), a, enough)}
        first == CHOOSE a \in accepted : \A b \in accepted : a <= b
    IN  /\ Cardinality(HouseCells(new) \ HouseCells(old)) <= 3
        /\ HouseCells(new) \subseteq (1 .. (CHUNK_SIZE - 2)) \X (1 .. (CHUNK_SIZE - 2))
        /\ (RandInt(s, 0, 3) >= 1 /\ accepted # {})
              => FirstHouseDraw(s, first) \in HouseCells(new)
        /\ (RandInt(s, 0, 3) >= 1 /\ accepted = {})
              => Cardinality(HouseCells(new)) < RandInt(s, 0, 3)

\* C25: each house makes at most 10 attempts at interior positions; an attempt
\* is accepted exactly when its cell is not water, path or house and a path
\* lies in its 3 x 3 neighbourhood or 5 attempts for the house have failed;
\* the first accepted attempt places the house, and a chunk holds at most 3
\* houses.
C25_HousePlacement ==
    [][\A p \in Generators :
          (generators[p].pc = "houses" /\ generators'[p].pc = "forest")
             => HousesPlaced(generators[p].tiles, generators'[p].tiles, RngNext(rng), 5)]_vars

\* C25 (amended): as C25, with 6 failed attempts where C25 has 5: an attempt
\* is accepted exactly when its cell is not water, path or house and a path
\* lies in its 3 x 3 neighbourhood or 6 attempts for the house have failed.
C25_HousePlacementAfterSix ==
    [][\A p \in Generators :
          (generators[p].pc = "houses" /\ generators'[p].pc = "forest")
             => HousesPlaced(generators[p].tiles, generators'[p].tiles, RngNext(rng), 6)]_vars

\* C25's case: generate_houses has returned and left a house with no path in
\* its 3 x 3 neighbourhood, placed by an attempt that needed none.
C25_Witness ==
    \E p \in Generators :
        /\ generators[p].pc = "forest"
        /\ \E c \in HouseCells(generators[p].tiles) :
              ~Nearby(generators[p].tiles, c[1], c[2], "path")

\* May a step of generation put `new` on a cell that holds `old`?  Water goes
\* on any cell, a house on any cell but water, path and house, a bird on a
\* tree or on grass, and everything else on grass only.
MayReplace(old, new) ==
    \/ new = "water"
    \/ new = "house" /\ old \notin {"water", "path", "house"}
    \/ new = "bird" /\ old \in {"tree", "grass"}
    \/ old = "grass"

\* C26 (amended): later steps overwrite by fixed rules, not by priority: the
\* water blob replaces any cell, a house any cell but water, path and house,
\* an in-tree bird a tree, and every other placement replaces grass only; so
\* a path cell is replaced by nothing but water, and a tree by nothing but
\* water, a house or a bird.
C26_OverwriteRules ==
    [][\A p \in Generators :
          (generators[p].tiles # << >> /\ generators'[p].tiles # generators[p].tiles)
             => \A y \in 0 .. (CHUNK_SIZE - 1), x \in 0 .. (CHUNK_SIZE - 1) :
                   \/ generators'[p].tiles[y][x] = generators[p].tiles[y][x]
                   \/ MayReplace(generators[p].tiles[y][x], generators'[p].tiles[y][x])]_vars

\* C26's case: a finished grid in which water lies on the row of a path: the
\* row is path but for its water cells, and the cells above and below the
\* water are not path.
C26_Witness ==
    \E p \in Generators :
        /\ generators[p].pc = "done"
        /\ \E y \in 1 .. (CHUNK_SIZE - 2) :
              /\ \A x \in Local : generators[p].tiles[y][x] \in {"path", "water"}
              /\ \E x \in Local :
                    /\ generators[p].tiles[y][x] = "water"
                    /\ generators[p].tiles[y - 1][x] # "path"
                    /\ generators[p].tiles[y + 1][x] # "path"

====
